---- MODULE Spec2Model ----
(***************************************************************************)
(* A model of gocommonlog: the dispatch orchestrator (Logger), the two     *)
(* provider dispatchers (Slack, Lark), the Lark token / chat-id cache      *)
(* layer, and the in-process cache (InMemoryCache).                        *)
(*                                                                         *)
(* One call of an exported operation is one action; what the environment   *)
(* answers during the call (HTTP responses, Redis pings and replies) is    *)
(* drawn with \E inside the action.  Time is a clock reading `now`; two    *)
(* operations may observe the same reading.                                *)
(***************************************************************************)
EXTENDS Integers, Sequences, FiniteSets, TLC

VARIABLES
    config,     \* Logger.config, as NewLogger left it
    provider,   \* Logger.provider: the dispatcher NewLogger selected
    callerAtt,  \* the Attachment object the caller owns and passes by pointer
    lastLog,    \* what the last Logger call was given, did and returned
    data,       \* InMemoryCache.data of the global cache: key -> cacheItem
    redis,      \* the external store: key -> [value, ttl kept?, expiry]
    now,        \* the clock reading time.Now() returns
    lastCache,  \* the last call on the InMemoryCache API and its result
    hist,       \* per key: the most recent Set not followed by a Delete;
                \* per credentials: the most recent token the endpoint issued
    lastLark,   \* the last call into the Lark token / chat-id layer
    pc,         \* concurrent callers: the step each goroutine is at
    loc         \* concurrent callers: each goroutine's local variables

vars == <<config, provider, callerAtt, lastLog, data, redis, now,
          lastCache, hist, lastLark, pc, loc>>

loggerVars == <<config, provider, callerAtt, lastLog>>
storeVars  == <<data, redis, now>>
cacheVars  == <<lastCache, hist>>
concVars   == <<pc, loc>>

-----------------------------------------------------------------------------
(* Alert levels: const ( INFO = iota; WARN; ERROR ).                       *)
INFO == 0
WARN == 1
ERROR == 2

\* The largest level value a caller passes; MaxLevel > ERROR makes a level
\* outside INFO/WARN/ERROR part of the inputs.
MaxLevel == 3
Levels == INFO..MaxLevel

MethodWebClient == "webclient"
MethodWebhook == "webhook"

-----------------------------------------------------------------------------
(* Values.  A Go string is a TLA+ string; "" is the empty string.  A nil    *)
(* pointer or interface is a record with nil = TRUE, so that nil and       *)
(* non-nil values of one type compare.                                     *)

\* *types.Attachment: nil, or a pointer to {URL, FileName, Content}.
NilAttachment == [nil |-> TRUE, URL |-> "", FileName |-> "", Content |-> ""]
Attachment(url, fileName, content) ==
    [nil |-> FALSE, URL |-> url, FileName |-> fileName, Content |-> content]

\* types.ChannelResolver: nil, or a *DefaultChannelResolver.  A nil or empty
\* ChannelMap is the function with the empty domain.
NilResolver == [nil |-> TRUE, ChannelMap |-> <<>>, DefaultChannel |-> ""]
DefaultChannelResolver(channelMap, defaultChannel) ==
    [nil |-> FALSE, ChannelMap |-> channelMap, DefaultChannel |-> defaultChannel]

\* A ResolveChannel that looks up the three named levels only.
ResolveChannelNamedLevels(r, level) ==
    IF level \in DOMAIN r.ChannelMap /\ level \in {INFO, WARN, ERROR}
    THEN r.ChannelMap[level]
    ELSE r.DefaultChannel

\* DefaultChannelResolver.ResolveChannel
ResolveChannel(r, level) ==
    IF level \in DOMAIN r.ChannelMap THEN r.ChannelMap[level]
    ELSE r.DefaultChannel

\* A value of ProviderConfig (map[string]interface{}): its dynamic type and,
\* for a string, the string.
StrVal(s) == [t |-> "string", s |-> s]
OtherVal == [t |-> "other", s |-> ""]

\* cfg.ProviderConfig[key].(string) with the ok result: (value, ok).
AssertString(m, key) ==
    IF key \in DOMAIN m /\ m[key].t = "string"
    THEN [s |-> m[key].s, ok |-> TRUE]
    ELSE [s |-> "", ok |-> FALSE]

\* m[key] = value, as a Go map assignment.
MapPut(m, key, value) ==
    [k \in DOMAIN m \cup {key} |-> IF k = key THEN value ELSE m[k]]

EmptyMap == [k \in {} |-> StrVal("")]

\* types.LarkTokenConfig
LarkTokenConfig(appID, appSecret) == [AppID |-> appID, AppSecret |-> appSecret]

\* types.Config.  ProviderConfig is the settings map logger.go and the
\* providers read; a nil map reads like an empty one.
Config(prov, method, token, slackToken, larkToken, channel, resolver, env, pcfg) ==
    [Provider |-> prov, SendMethod |-> method, Token |-> token,
     SlackToken |-> slackToken, LarkToken |-> larkToken, Channel |-> channel,
     ChannelResolver |-> resolver, ServiceName |-> "", Environment |-> env,
     ProviderConfig |-> pcfg]

-----------------------------------------------------------------------------
(* logger.go                                                               *)

\* createProvider: the dispatcher for a provider name.
createProvider(providerName) ==
    CASE providerName = "slack" -> "SlackProvider"
      [] providerName = "lark" -> "LarkProvider"
      [] OTHER -> "SlackProvider"

\* A NewLogger that lets ProviderConfig["provider"] win over Provider.
PopulateProviderConfigKeeping(cfg) ==
    LET m0 == cfg.ProviderConfig
        m1 == IF cfg.Provider # "" /\ "provider" \notin DOMAIN m0
              THEN MapPut(m0, "provider", StrVal(cfg.Provider)) ELSE m0
        m2 == IF cfg.Token # "" THEN MapPut(m1, "token", StrVal(cfg.Token)) ELSE m1
        m3 == IF cfg.SlackToken # "" THEN MapPut(m2, "slack_token", StrVal(cfg.SlackToken)) ELSE m2
        m4 == IF cfg.LarkToken.AppID # "" \/ cfg.LarkToken.AppSecret # ""
              THEN MapPut(m3, "lark_token", OtherVal) ELSE m3
    IN  IF "provider" \notin DOMAIN m4 THEN MapPut(m4, "provider", StrVal("slack")) ELSE m4

\* The ProviderConfig NewLogger leaves in the Logger's config.
PopulateProviderConfig(cfg) ==
    LET m0 == cfg.ProviderConfig
        m1 == IF cfg.Provider # "" THEN MapPut(m0, "provider", StrVal(cfg.Provider)) ELSE m0
        m2 == IF cfg.Token # "" THEN MapPut(m1, "token", StrVal(cfg.Token)) ELSE m1
        m3 == IF cfg.SlackToken # "" THEN MapPut(m2, "slack_token", StrVal(cfg.SlackToken)) ELSE m2
        m4 == IF cfg.LarkToken.AppID # "" \/ cfg.LarkToken.AppSecret # ""
              THEN MapPut(m3, "lark_token", OtherVal) ELSE m3
    IN  IF "provider" \notin DOMAIN m4 THEN MapPut(m4, "provider", StrVal("slack")) ELSE m4

\* The provider name NewLogger hands to createProvider.
ProviderName(pcfg) ==
    LET a == AssertString(pcfg, "provider")
    IN  IF a.ok THEN a.s ELSE "slack"

\* NewLogger: the Logger {config, provider} built from cfg.
NewLogger(cfg) ==
    LET pcfg == PopulateProviderConfig(cfg)
    IN  [config |-> [cfg EXCEPT !.ProviderConfig = pcfg],
         provider |-> createProvider(ProviderName(pcfg))]

\* Logger.resolveChannel: the channel, and whether the resolver was called.
resolveChannel(cfg, level) ==
    IF ~cfg.ChannelResolver.nil
    THEN [channel |-> ResolveChannel(cfg.ChannelResolver, level), consulted |-> TRUE]
    ELSE [channel |-> cfg.Channel, consulted |-> FALSE]

-----------------------------------------------------------------------------
(* cache/cache.go: InMemoryCache.  d is the sync.Map `data`, a function    *)
(* from the keys present to cacheItem {value, expiry}; t is the reading of *)
(* time.Now() the call takes.                                              *)

cacheItem(value, expiry) == [value |-> value, expiry |-> expiry]

EmptyData == [k \in {} |-> cacheItem("", 0)]

\* sync.Map.Store / sync.Map.Delete
MapStore(d, key, item) == [k \in DOMAIN d \cup {key} |-> IF k = key THEN item ELSE d[k]]
MapDelete(d, key) == [k \in DOMAIN d \ {key} |-> d[k]]

\* An expiry test that takes the expiry instant itself as expired.
ExpiredAtExpiry(item, t) == t >= item.expiry

\* time.Now().After(item.expiry)
Expired(item, t) == t > item.expiry

\* A Get that reports an expired entry as a miss and leaves it stored.
CacheGetNoEvict(d, key, t) ==
    IF key \notin DOMAIN d \/ Expired(d[key], t)
    THEN [value |-> "", found |-> FALSE, data |-> d]
    ELSE [value |-> d[key].value, found |-> TRUE, data |-> d]

\* InMemoryCache.Get: (value, found) and the map it leaves.
CacheGet(d, key, t) ==
    IF key \notin DOMAIN d
    THEN [value |-> "", found |-> FALSE, data |-> d]
    ELSE IF Expired(d[key], t)
         THEN [value |-> "", found |-> FALSE, data |-> MapDelete(d, key)]
         ELSE [value |-> d[key].value, found |-> TRUE, data |-> d]

\* InMemoryCache.Set
CacheSet(d, key, value, duration, t) == MapStore(d, key, cacheItem(value, t + duration))

\* InMemoryCache.Delete
CacheDelete(d, key) == MapDelete(d, key)

\* InMemoryCache.cleanupExpired, run with no other call in between.
cleanupExpired(d, t) ==
    LET expiredKeys == {k \in DOMAIN d : Expired(d[k], t)}
    IN  [k \in DOMAIN d \ expiredKeys |-> d[k]]

-----------------------------------------------------------------------------
(* The external store (Redis), as the Lark layer uses it: r is a function  *)
(* from the keys stored to {value, persistent, expiry}.  A key whose       *)
(* expiry has passed reads as absent (redis.Nil).                          *)

redisItem(value, persistent, expiry) ==
    [value |-> value, persistent |-> persistent, expiry |-> expiry]

EmptyRedis == [k \in {} |-> redisItem("", TRUE, 0)]

RedisLive(r, key, t) == key \in DOMAIN r /\ (r[key].persistent \/ t <= r[key].expiry)

\* client.Set(ctx, key, value, expiration): an expiration > 0 sets the
\* expiry, any other leaves the key without one.
RedisSet(r, key, value, seconds, t) ==
    MapStore(r, key, IF seconds > 0 THEN redisItem(value, FALSE, t + seconds)
                     ELSE redisItem(value, TRUE, 0))

\* getRedisClient: TRUE when it returns a client.  ping is the outcome of
\* client.Ping for this attempt.
getRedisClient(cfg, ping) ==
    LET host == AssertString(cfg.ProviderConfig, "redis_host")
        port == AssertString(cfg.ProviderConfig, "redis_port")
    IN  /\ host.ok /\ host.s # ""
        /\ port.ok /\ port.s # ""
        /\ ~( "redis_cluster_mode" \in DOMAIN cfg.ProviderConfig
              /\ cfg.ProviderConfig["redis_cluster_mode"] = [t |-> "bool", s |-> "true"] )
        /\ ping

-----------------------------------------------------------------------------
(* The Lark token layer.  env holds what the environment answers during    *)
(* one call: ping1/ping2 the Redis pings of the two getRedisClient calls,  *)
(* rget/rset whether the Redis GET/SET succeed, and tok the reply of the   *)
(* token endpoint {net, decoded, code, token, expire}: net = FALSE is a    *)
(* transport error, decoded = FALSE a body json cannot decode.             *)

NoError == "nil"

\* One outbound HTTP request: what it is for, its URL, its bearer credential,
\* the destination its body names, and the title and text its body carries
\* (for the token request: app_id and app_secret).
Request(kind, url, bearer, dest, title, text) ==
    [kind |-> kind, url |-> url, bearer |-> bearer, dest |-> dest,
     title |-> title, text |-> text]

TokenURL == "https://open.larksuite.com/open-apis/auth/v3/tenant_access_token/internal"
ChatsURL == "https://open.larksuite.com/open-apis/im/v1/chats"

\* TTLs the dead helper cacheLarkToken and cacheChatID use in memory.
TokenMemorySeconds == 5400
ChatIDMemorySeconds == 2592000

\* The safety margin and the fallback of getTenantAccessToken.
SafetyMarginSeconds == 600
FallbackSeconds == 60

TokenKey(appID, appSecret) == "commonlog_lark_token:" \o appID \o ":" \o appSecret

\* getCachedLarkToken: (token, err) and the in-memory map it leaves.
getCachedLarkToken(cfg, appID, appSecret, env, d, r, t) ==
    LET key == TokenKey(appID, appSecret)
        got == CacheGet(d, key, t)
    IN  IF ~getRedisClient(cfg, env.ping1)
        THEN [token |-> IF got.found THEN got.value ELSE "", err |-> FALSE,
              data |-> got.data]
        ELSE IF ~RedisLive(r, key, t) /\ env.rget
             THEN [token |-> "", err |-> FALSE, data |-> d]
             ELSE IF ~env.rget
                  THEN [token |-> "", err |-> TRUE, data |-> d]
                  ELSE [token |-> r[key].value, err |-> FALSE, data |-> d]

\* The margin taken off with no floor.
ExpireSecondsNoFloor(expire) == expire - SafetyMarginSeconds

\* A floor that applies only below zero.
ExpireSecondsNegativeOnly(expire) ==
    IF expire - SafetyMarginSeconds < 0 THEN FallbackSeconds
    ELSE expire - SafetyMarginSeconds

\* expireSeconds of getTenantAccessToken.
ExpireSeconds(expire) ==
    IF expire - SafetyMarginSeconds <= 0 THEN FallbackSeconds
    ELSE expire - SafetyMarginSeconds

\* A caching step that stores nothing.
StoreNothing(cfg, key, token, expire, env, r, t) == r

\* The store after the caching step of getTenantAccessToken.
StoreFetchedToken(cfg, key, token, expire, env, r, t) ==
    IF ~getRedisClient(cfg, env.ping2) THEN r
    ELSE IF env.rset THEN RedisSet(r, key, token, ExpireSeconds(expire), t)
         ELSE r

\* getTenantAccessToken: (token, err), the requests sent, the stores left.
getTenantAccessToken(cfg, appID, appSecret, env, d, r, t) ==
    LET key == TokenKey(appID, appSecret)
        sent == <<Request("token", TokenURL, "", "", appID, appSecret)>>
        after(cached) ==
            LET out(token, err, http, r2) ==
                    [token |-> token, err |-> err, http |-> http,
                     data |-> cached.data, redis |-> r2]
            IN  IF cached.err THEN out("", "failed to get Redis client", <<>>, r)
                ELSE IF cached.token # "" THEN out(cached.token, NoError, <<>>, r)
                ELSE IF ~env.tok.net THEN out("", "transport error", sent, r)
                ELSE IF ~env.tok.decoded THEN out("", "decode error", sent, r)
                ELSE IF env.tok.code # 0 THEN out("", "lark token error", sent, r)
                ELSE out(env.tok.token, NoError, sent,
                         StoreFetchedToken(cfg, key, env.tok.token, env.tok.expire,
                                           env, r, t))
    IN  after(getCachedLarkToken(cfg, appID, appSecret, env, d, r, t))

-----------------------------------------------------------------------------
(* The Lark chat-id layer.  env.listing is the channel listing the server  *)
(* holds, a sequence of pages, each a sequence of items {ChatID, Name}; a  *)
(* request with the page_token of page i is answered with page i, its      *)
(* has_more (i is not the last page) and the page_token of page i + 1.     *)
(* env.failAt = i > 0 makes the i-th request fail in the way env.failKind  *)
(* says; ping3/ping4 and rgetc/rsetc are the Redis outcomes of             *)
(* getCachedChatID and cacheChatID.                                        *)

ChatKey(environment, channelName) ==
    "commonlog_lark_chat_id:" \o environment \o ":" \o channelName

ChatItem(chatID, name) == [ChatID |-> chatID, Name |-> name]

PageToken(i) == "p" \o ToString(i)

\* The index of the page a request with page_token pt asks for.
PageIndex(listing, pt) ==
    IF pt = "" THEN 1
    ELSE CHOOSE i \in 1..(Len(listing) + 1) : PageToken(i) = pt

\* The decoded reply to GET chats?page_size=10[&page_token=pt].
ServePage(listing, pt) ==
    LET i == PageIndex(listing, pt)
    IN  [items |-> IF i <= Len(listing) THEN listing[i] ELSE <<>>,
         page_token |-> IF i < Len(listing) THEN PageToken(i + 1) ELSE "",
         has_more |-> i < Len(listing)]

\* The last item of a page named channelName: its index, or 0.
FindLastItem(items, channelName) ==
    IF \E j \in 1..Len(items) : items[j].Name = channelName
    THEN CHOOSE j \in 1..Len(items) :
            /\ items[j].Name = channelName
            /\ \A h \in (j + 1)..Len(items) : items[h].Name # channelName
    ELSE 0

\* The first item of a page named channelName: its index, or 0.
FindItem(items, channelName) ==
    IF \E j \in 1..Len(items) : items[j].Name = channelName
    THEN CHOOSE j \in 1..Len(items) :
            /\ items[j].Name = channelName
            /\ \A h \in 1..(j - 1) : items[h].Name # channelName
    ELSE 0

\* getCachedChatID without the in-memory fallback.
getCachedChatIDNoFallback(cfg, channelName, env, d, r, t) ==
    LET key == ChatKey(cfg.Environment, channelName)
    IN  IF ~getRedisClient(cfg, env.ping3)
        THEN [chatID |-> "", err |-> FALSE, data |-> d]
        ELSE IF ~RedisLive(r, key, t) /\ env.rgetc
             THEN [chatID |-> "", err |-> FALSE, data |-> d]
             ELSE IF ~env.rgetc
                  THEN [chatID |-> "", err |-> TRUE, data |-> d]
                  ELSE [chatID |-> r[key].value, err |-> FALSE, data |-> d]

\* getCachedChatID: (chatID, err) and the in-memory map it leaves.
getCachedChatID(cfg, channelName, env, d, r, t) ==
    LET key == ChatKey(cfg.Environment, channelName)
        got == CacheGet(d, key, t)
    IN  IF ~getRedisClient(cfg, env.ping3)
        THEN [chatID |-> IF got.found THEN got.value ELSE "", err |-> FALSE,
              data |-> got.data]
        ELSE IF ~RedisLive(r, key, t) /\ env.rgetc
             THEN [chatID |-> "", err |-> FALSE, data |-> d]
             ELSE IF ~env.rgetc
                  THEN [chatID |-> "", err |-> TRUE, data |-> d]
                  ELSE [chatID |-> r[key].value, err |-> FALSE, data |-> d]

\* cacheChatID giving the Redis entry the expiry of the in-memory entry.
cacheChatIDExpiring(cfg, channelName, chatID, env, d, r, t) ==
    LET key == ChatKey(cfg.Environment, channelName)
    IN  IF ~getRedisClient(cfg, env.ping4)
        THEN [data |-> CacheSet(d, key, chatID, ChatIDMemorySeconds, t), redis |-> r]
        ELSE [data |-> d,
              redis |-> IF env.rsetc
                        THEN RedisSet(r, key, chatID, ChatIDMemorySeconds, t) ELSE r]

\* cacheChatID: the stores it leaves (its error is only logged).
cacheChatID(cfg, channelName, chatID, env, d, r, t) ==
    LET key == ChatKey(cfg.Environment, channelName)
    IN  IF ~getRedisClient(cfg, env.ping4)
        THEN [data |-> CacheSet(d, key, chatID, ChatIDMemorySeconds, t), redis |-> r]
        ELSE [data |-> d,
              redis |-> IF env.rsetc THEN RedisSet(r, key, chatID, 0, t) ELSE r]

\* The pagination loop of getChatIDFromChannelName from its n-th request on:
\* (chatID, err, found) and the requests sent.
RECURSIVE listChats(_, _, _, _, _, _)
listChats(token, channelName, env, pageToken, n, http) ==
    LET url == ChatsURL \o "?page_size=10" \o
               (IF pageToken # "" THEN "&page_token=" \o pageToken ELSE "")
        after(sent, page) ==
            LET out(chatID, err, found) ==
                    [chatID |-> chatID, err |-> err, found |-> found, http |-> sent]
                scan(j) ==
                    IF j # 0 THEN out(page.items[j].ChatID, NoError, TRUE)
                    ELSE IF page.has_more
                         THEN listChats(token, channelName, env, page.page_token,
                                        n + 1, sent)
                         ELSE out("", "channel '" \o channelName \o "' not found",
                                  FALSE)
            IN  IF env.failAt = n THEN out("", env.failKind, FALSE)
                ELSE scan(FindItem(page.items, channelName))
    IN  after(Append(http, Request("chats", url, token, "", "", "")),
              ServePage(env.listing, pageToken))

\* getChatIDFromChannelName: (chatID, err), the requests sent, the stores left.
getChatIDFromChannelName(cfg, token, channelName, env, d, r, t) ==
    LET out(chatID, err, http, d2, r2) ==
            [chatID |-> chatID, err |-> err, http |-> http, data |-> d2, redis |-> r2]
        store(listed, saved) ==
            out(listed.chatID, NoError, listed.http, saved.data, saved.redis)
        search(cached, listed) ==
            IF listed.found
            THEN store(listed, cacheChatID(cfg, channelName, listed.chatID, env,
                                           cached.data, r, t))
            ELSE out("", listed.err, listed.http, cached.data, r)
        after(cached) ==
            IF cached.err
            THEN out("", "failed to get Redis client", <<>>, cached.data, r)
            ELSE IF cached.chatID # ""
            THEN out(cached.chatID, NoError, <<>>, cached.data, r)
            ELSE search(cached, listChats(token, channelName, env, "", 1, <<>>))
    IN  after(getCachedChatID(cfg, channelName, env, d, r, t))

-----------------------------------------------------------------------------
(* The provider dispatchers.  env.post is the reply to the message POST:   *)
(* {net, status, ok}, net = FALSE a transport error, ok the provider's own *)
(* result code in the body.  A dispatcher returns err (NoError, an error   *)
(* text, or Panic when the call does not return), the requests it sent and *)
(* the stores it leaves.                                                   *)

Panic == "panic"

SlackAPIURL == "https://slack.com/api/chat.postMessage"
LarkAPIURL == "https://open.larksuite.com/open-apis/im/v1/messages?receive_id_type=chat_id"

\* The strings http.NewRequest cannot parse as a URL, among those the
\* configurations name.  The send functions drop the error of NewRequest
\* and call req.Header.Set on the nil request it returns with it.
UnparsableURLs == {"://hook"}
ParsesAsURL(url) == url \notin UnparsableURLs

Sent(err, http, d, r) == [err |-> err, http |-> http, data |-> d, redis |-> r]

\* A result that takes every answered request for a success.
PostResultAnyStatus(reply, what) ==
    IF ~reply.net THEN "transport error" ELSE NoError

\* The result of http.DefaultClient.Do and the status check after it.
PostResult(reply, what) ==
    IF ~reply.net THEN "transport error"
    ELSE IF reply.status # 200 THEN what \o " response: " \o ToString(reply.status)
    ELSE NoError

\* The code fence of the formatted block.  A TLA+ string cannot hold the
\* backquote, so the three backquotes are written as three quotes.
Fence == "'''"

\* The attachment sections both formatMessage methods append; b is the
\* emphasis mark ("*" for Slack, "**" for Lark).
AttachmentText(attachment, b) ==
    IF attachment.nil THEN ""
    ELSE (IF attachment.Content # ""
          THEN "\n\n" \o b \o
               (IF attachment.FileName = "" THEN "Trace Logs" ELSE attachment.FileName)
               \o ":" \o b \o "\n" \o Fence \o "\n" \o attachment.Content \o "\n" \o Fence
          ELSE "")
         \o
         (IF attachment.URL # ""
          THEN "\n\n" \o b \o "Attachment:" \o b \o " " \o attachment.URL
          ELSE "")

\* SlackProvider.formatMessage
SlackFormatMessage(message, attachment, cfg) ==
    (IF cfg.ServiceName # "" /\ cfg.Environment # ""
     THEN "*[" \o cfg.ServiceName \o " - " \o cfg.Environment \o "]*\n"
     ELSE IF cfg.ServiceName # "" THEN "*[" \o cfg.ServiceName \o "]*\n"
     ELSE IF cfg.Environment # "" THEN "*[" \o cfg.Environment \o "]*\n"
     ELSE "")
    \o message \o AttachmentText(attachment, "*")

\* LarkProvider.formatMessage: (title, text)
LarkFormatMessage(message, attachment, cfg) ==
    [title |-> IF cfg.ServiceName # "" /\ cfg.Environment # ""
               THEN cfg.ServiceName \o " - " \o cfg.Environment
               ELSE IF cfg.ServiceName # "" THEN cfg.ServiceName
               ELSE IF cfg.Environment # "" THEN cfg.Environment
               ELSE "Alert",
     text |-> message \o AttachmentText(attachment, "**")]

\* SlackProvider.sendSlackWebhook
sendSlackWebhook(message, attachment, cfg, env, d, r) ==
    LET url == AssertString(cfg.ProviderConfig, "token")
        req == Request("slack-webhook", url.s, "", cfg.Channel, "",
                       SlackFormatMessage(message, attachment, cfg))
    IN  IF ~url.ok THEN Sent(Panic, <<>>, d, r)
        ELSE IF url.s = ""
        THEN Sent("webhook URL is required for Slack webhook method", <<>>, d, r)
        ELSE IF ~ParsesAsURL(url.s) THEN Sent(Panic, <<>>, d, r)
        ELSE Sent(PostResult(env.post, "slack webhook"), <<req>>, d, r)

\* SlackProvider.sendSlackWebClient
sendSlackWebClient(message, attachment, cfg, env, d, r) ==
    LET generic == AssertString(cfg.ProviderConfig, "token")
        slack == AssertString(cfg.ProviderConfig, "slack_token")
        token == IF slack.ok /\ slack.s # "" THEN slack.s ELSE generic.s
        req == Request("slack-api", SlackAPIURL, token, cfg.Channel, "",
                       SlackFormatMessage(message, attachment, cfg))
    IN  IF ~generic.ok THEN Sent(Panic, <<>>, d, r)
        ELSE Sent(PostResult(env.post, "slack WebClient"), <<req>>, d, r)

\* SlackProvider.SendToChannel
SlackSendToChannel(level, message, attachment, cfg, channel, env, d, r) ==
    LET cfgCopy == [cfg EXCEPT !.Channel = channel]
    IN  CASE cfgCopy.SendMethod = MethodWebClient ->
                sendSlackWebClient(message, attachment, cfgCopy, env, d, r)
          [] cfgCopy.SendMethod = MethodWebhook ->
                sendSlackWebhook(message, attachment, cfgCopy, env, d, r)
          [] OTHER ->
                Sent("unknown send method for Slack: " \o cfgCopy.SendMethod, <<>>, d, r)

\* LarkProvider.sendLarkWebhook
sendLarkWebhook(message, attachment, cfg, env, d, r) ==
    LET req(f) == Request("lark-webhook", cfg.Token, "", "", f.title, f.text)
    IN  IF cfg.Token = ""
        THEN Sent("webhook URL is required for Lark webhook method", <<>>, d, r)
        ELSE IF ~ParsesAsURL(cfg.Token) THEN Sent(Panic, <<>>, d, r)
        ELSE Sent(PostResult(env.post, "lark webhook"),
                  <<req(LarkFormatMessage(message, attachment, cfg))>>, d, r)

\* A sendLarkWebClient that exchanges the credentials when either is set.
sendLarkWebClientEitherCredential(message, attachment, cfg, env, d, r, t) ==
    LET exchange == cfg.LarkToken.AppID # "" \/ cfg.LarkToken.AppSecret # ""
        post(f, token, h1, chat) ==
            IF chat.err # NoError
            THEN Sent("failed to get chat_id for channel '" \o cfg.Channel \o "': "
                      \o chat.err, h1 \o chat.http, chat.data, chat.redis)
            ELSE Sent(PostResult(env.post, "lark WebClient"),
                      h1 \o chat.http \o
                      <<Request("lark-api", LarkAPIURL, token, chat.chatID, f.title, f.text)>>,
                      chat.data, chat.redis)
        lookup(tok) ==
            IF tok.err # NoError
            THEN Sent(tok.err, tok.http, tok.data, tok.redis)
            ELSE post(LarkFormatMessage(message, attachment, cfg), tok.token, tok.http,
                      getChatIDFromChannelName(cfg, tok.token, cfg.Channel, env,
                                               tok.data, tok.redis, t))
    IN  lookup(IF exchange
               THEN getTenantAccessToken(cfg, cfg.LarkToken.AppID, cfg.LarkToken.AppSecret,
                                         env, d, r, t)
               ELSE [token |-> cfg.Token, err |-> NoError, http |-> <<>>,
                     data |-> d, redis |-> r])

\* LarkProvider.sendLarkWebClient
sendLarkWebClient(message, attachment, cfg, env, d, r, t) ==
    LET exchange == cfg.LarkToken.AppID # "" /\ cfg.LarkToken.AppSecret # ""
        post(f, token, h1, chat) ==
            IF chat.err # NoError
            THEN Sent("failed to get chat_id for channel '" \o cfg.Channel \o "': "
                      \o chat.err, h1 \o chat.http, chat.data, chat.redis)
            ELSE Sent(PostResult(env.post, "lark WebClient"),
                      h1 \o chat.http \o
                      <<Request("lark-api", LarkAPIURL, token, chat.chatID, f.title, f.text)>>,
                      chat.data, chat.redis)
        lookup(tok) ==
            IF tok.err # NoError
            THEN Sent(tok.err, tok.http, tok.data, tok.redis)
            ELSE post(LarkFormatMessage(message, attachment, cfg), tok.token, tok.http,
                      getChatIDFromChannelName(cfg, tok.token, cfg.Channel, env,
                                               tok.data, tok.redis, t))
    IN  lookup(IF exchange
               THEN getTenantAccessToken(cfg, cfg.LarkToken.AppID, cfg.LarkToken.AppSecret,
                                         env, d, r, t)
               ELSE [token |-> cfg.Token, err |-> NoError, http |-> <<>>,
                     data |-> d, redis |-> r])

\* A SendToChannel that takes every other send method for WebClient.
LarkSendToChannelDefaulting(level, message, attachment, cfg, channel, env, d, r, t) ==
    LET cfgCopy == [cfg EXCEPT !.Channel = channel]
    IN  CASE cfgCopy.SendMethod = MethodWebhook ->
                sendLarkWebhook(message, attachment, cfgCopy, env, d, r)
          [] OTHER ->
                sendLarkWebClient(message, attachment, cfgCopy, env, d, r, t)

\* LarkProvider.SendToChannel
LarkSendToChannel(level, message, attachment, cfg, channel, env, d, r, t) ==
    LET cfgCopy == [cfg EXCEPT !.Channel = channel]
    IN  CASE cfgCopy.SendMethod = MethodWebClient ->
                sendLarkWebClient(message, attachment, cfgCopy, env, d, r, t)
          [] cfgCopy.SendMethod = MethodWebhook ->
                sendLarkWebhook(message, attachment, cfgCopy, env, d, r)
          [] OTHER ->
                Sent("unknown send method for Lark: " \o cfgCopy.SendMethod, <<>>, d, r)

\* types.Provider.SendToChannel on the dispatcher p.
ProviderSendToChannel(p, level, message, attachment, cfg, channel, env, d, r, t) ==
    IF p = "LarkProvider"
    THEN LarkSendToChannel(level, message, attachment, cfg, channel, env, d, r, t)
    ELSE SlackSendToChannel(level, message, attachment, cfg, channel, env, d, r)

-----------------------------------------------------------------------------
(* What the environment may answer during one call.  Only the answers the  *)
(* call asks for are drawn; the others keep the values of BaseEnv.  A      *)
(* profile names the sets the answers are drawn from:                      *)
(*   pings       the outcomes of a Redis ping when host and port are set   *)
(*   ops         the outcomes of a Redis GET / SET (TRUE = succeeded)      *)
(*   tokReplies  the replies of the token endpoint                         *)
(*   listings    the kinds of channel listing the server may hold          *)
(*   failKinds   the ways a listing request may fail                       *)
(*   posts       the replies to the message POST                           *)

TokReply(net, decoded, code, token, expire) ==
    [net |-> net, status |-> 200, decoded |-> decoded, code |-> code, token |-> token,
     expire |-> expire]

\* A reply of the token endpoint with another HTTP status.
TokReplyWithStatus(status, decoded, code, token, expire) ==
    [TokReply(TRUE, decoded, code, token, expire) EXCEPT !.status = status]

PostReply(net, status, ok) == [net |-> net, status |-> status, ok |-> ok]

\* The channel listing of a kind, for a lookup of channelName: no page, the
\* name on the first page, the name on the second page, the name on no page,
\* the name twice on one page, the name on the third page after a longer
\* name that begins with it.
ListingOf(kind, channelName) ==
    CASE kind = "none" -> <<>>
      [] kind = "first" -> << <<ChatItem("oc_1", channelName)>> >>
      [] kind = "second" -> << <<ChatItem("oc_0", "other")>>,
                               <<ChatItem("oc_2", channelName)>> >>
      [] kind = "absent" -> << <<ChatItem("oc_0", "other")>>,
                               <<ChatItem("oc_3", "another")>> >>
      [] kind = "twice" -> << <<ChatItem("oc_1", channelName),
                                ChatItem("oc_4", channelName)>> >>
      [] kind = "third" -> << <<ChatItem("oc_0", "other")>>,
                              <<ChatItem("oc_5", channelName \o "-old")>>,
                              <<ChatItem("oc_3", "another"),
                                ChatItem("oc_6", channelName)>> >>

BaseEnv ==
    [ping1 |-> FALSE, rget |-> TRUE, tok |-> TokReply(FALSE, FALSE, 0, "", 0),
     ping2 |-> FALSE, rset |-> TRUE, ping3 |-> FALSE, rgetc |-> TRUE,
     listing |-> <<>>, failAt |-> 0, failKind |-> "",
     ping4 |-> FALSE, rsetc |-> TRUE, post |-> PostReply(FALSE, 0, FALSE)]

\* The outcomes (ping, op) of one Redis access: op is asked only after a ping
\* that succeeded.
RedisOutcomes(prof) == {<<p, o>> \in prof.pings \X prof.ops : p \/ o}

\* The environments of one getTenantAccessToken call.
TokenEnvs(base, prof) ==
    {[base EXCEPT !.ping1 = a[1], !.rget = a[2], !.tok = reply,
                  !.ping2 = b[1], !.rset = b[2]] :
        a \in RedisOutcomes(prof), reply \in prof.tokReplies, b \in RedisOutcomes(prof)}

\* The environments of one getChatIDFromChannelName call.
ChatEnvs(base, prof, channelName) ==
    {[base EXCEPT !.ping3 = a[1], !.rgetc = a[2], !.listing = ListingOf(k, channelName),
                  !.failAt = f[1], !.failKind = f[2], !.ping4 = b[1], !.rsetc = b[2]] :
        a \in RedisOutcomes(prof), k \in prof.listings,
        f \in {<<0, "">>} \cup ((1..2) \X prof.failKinds), b \in RedisOutcomes(prof)}

PostEnvs(base, prof) == {[base EXCEPT !.post = p] : p \in prof.posts}

\* The environments of one Provider.SendToChannel call for channelName.
DispatchEnvs(prof, channelName) ==
    UNION { UNION { PostEnvs(e2, prof) : e2 \in ChatEnvs(e1, prof, channelName) } :
            e1 \in TokenEnvs(BaseEnv, prof) }

-----------------------------------------------------------------------------
(* The Logger's calls.  A call is given a level, a message, an attachment  *)
(* pointer (nil, or the caller's object callerAtt), a trace and a channel  *)
(* override; env is what the environment answers while it runs.  The       *)
(* caller makes one call at a time: lastLog holds the call and its result  *)
(* until the caller takes it (LoggerReturn).                               *)

TraceSeparator == "\n\n--- Trace Log ---\n"

\* A trace handling that puts the trace in the place of the content.
MergeTraceReplacing(attachment, trace) ==
    IF trace = "" THEN attachment
    ELSE IF ~attachment.nil
         THEN [attachment EXCEPT !.Content = trace, !.FileName = "trace.log"]
         ELSE Attachment("", "trace.log", trace)

\* The trace handling of SendToChannel and CustomSend: the attachment the
\* dispatcher is handed.  A non-nil attachment is the caller's object, which
\* the code writes through the pointer.
MergeTrace(attachment, trace) ==
    IF trace = "" THEN attachment
    ELSE IF ~attachment.nil
         THEN IF attachment.Content # ""
              THEN [attachment EXCEPT !.Content = @ \o TraceSeparator \o trace]
              ELSE [attachment EXCEPT !.Content = trace, !.FileName = "trace.log"]
         ELSE Attachment("", "trace.log", trace)

\* A check that takes every level below ERROR as local.
LocalOnlyBelowError(level) == level < ERROR

\* level == types.INFO: the call logs locally and returns nil.
LocalOnly(level) == level = INFO

\* A resolution that asks the resolver first and uses the override only
\* without one.
ResolvedChannelResolverFirst(cfg, level, channel) ==
    IF ~cfg.ChannelResolver.nil \/ channel = "" THEN resolveChannel(cfg, level)
    ELSE [channel |-> channel, consulted |-> FALSE]

\* resolvedChannel of SendToChannel and CustomSend.
ResolvedChannel(cfg, level, channel) ==
    IF channel = "" THEN resolveChannel(cfg, level)
    ELSE [channel |-> channel, consulted |-> FALSE]

\* One call on dispatcher p, as the caller sees it: what it was handed and
\* the error it returned.
DispatcherCall(p, level, message, attachment, cfg, channel, result) ==
    [provider |-> p, level |-> level, message |-> message, attachment |-> attachment,
     cfg |-> cfg, channel |-> channel, result |-> result]

\* A provider call that is made again when it fails.
DispatchWithRetry(p, level, message, attachment, cfg, channel, env, d, r, t) ==
    LET call(out) == DispatcherCall(p, level, message, attachment, cfg, channel, out.err)
        again(out) ==
            [calls |-> IF out.err = NoError THEN <<call(out)>> ELSE <<call(out), call(out)>>,
             out |-> [out EXCEPT !.http = IF out.err = NoError THEN @ ELSE @ \o @]]
    IN  again(ProviderSendToChannel(p, level, message, attachment, cfg, channel,
                                    env, d, r, t))

\* The provider call of SendToChannel and CustomSend: the calls made on the
\* dispatcher and the result of the last one.
Dispatch(p, level, message, attachment, cfg, channel, env, d, r, t) ==
    LET once(out) ==
            [calls |-> <<DispatcherCall(p, level, message, attachment, cfg, channel,
                                        out.err)>>,
             out |-> out]
    IN  once(ProviderSendToChannel(p, level, message, attachment, cfg, channel,
                                   env, d, r, t))

\* A channel override written into the Logger's own config.
CopyConfigInPlace(cfg, channel) ==
    [sendConfig |-> [cfg EXCEPT !.Channel = channel],
     config |-> [cfg EXCEPT !.Channel = channel]]

\* sendConfig := l.config; sendConfig.Channel = resolvedChannel: the copy the
\* dispatcher is handed and the config the Logger holds afterwards.
CopyConfig(cfg, channel) ==
    [sendConfig |-> [cfg EXCEPT !.Channel = channel], config |-> cfg]

\* The body SendToChannel and CustomSend share from the INFO check on, for
\* the dispatcher p: the error returned, the dispatcher calls, whether the
\* resolver was consulted, the attachment object after the call, the stores.
SendVia(p, cfg, level, message, attachment, trace, channel, env, d, r, t) ==
    LET returned(rc, merged, copy, sent) ==
            [err |-> sent.out.err, calls |-> sent.calls, consulted |-> rc.consulted,
             object |-> merged, http |-> sent.out.http,
             data |-> sent.out.data, redis |-> sent.out.redis, config |-> copy.config]
        send(rc, merged, copy) ==
            returned(rc, merged, copy,
                     Dispatch(p, level, message, merged, copy.sendConfig,
                              rc.channel, env, d, r, t))
        resolved(rc) ==
            send(rc, MergeTrace(attachment, trace), CopyConfig(cfg, rc.channel))
    IN  IF LocalOnly(level)
        THEN [err |-> NoError, calls |-> <<>>, consulted |-> FALSE,
              object |-> attachment, http |-> <<>>, data |-> d, redis |-> r,
              config |-> cfg]
        ELSE resolved(ResolvedChannel(cfg, level, channel))

\* The environments of one Logger call through dispatcher p.
SendEnvs(prof, cfg, level, channel) ==
    DispatchEnvs(prof, ResolvedChannel(cfg, level, channel).channel)

-----------------------------------------------------------------------------
(* The inputs of the Logger specification.                                 *)

\* The longest inline content of the caller's attachment a call is given.
MaxContentLen == 2

Messages == {"m"}
Traces == {"", "B"}
ChannelOverrides == {"", "#custom"}
ProviderNames == {"slack", "lark", "unknown"}

\* The attachment objects a caller builds.
CallerAttachments ==
    {Attachment("", "test.txt", "A"), Attachment("http://u", "", "")}

Resolvers ==
    {NilResolver,
     DefaultChannelResolver((ERROR :> "#errors"), "#general"),
     DefaultChannelResolver(<<>>, "")}

\* ProviderConfig maps a caller passes to NewLogger.
RedisSettings == ("redis_host" :> StrVal("localhost")) @@ ("redis_port" :> StrVal("6379"))
ProviderConfigs ==
    {EmptyMap, ("provider" :> StrVal("lark")), ("provider" :> OtherVal)}

\* The Configs NewLogger is given: the configuration of the tests, and the
\* configurations that differ from it in one setting.
TestConfig ==
    Config("slack", MethodWebhook, "dummy-token", "", LarkTokenConfig("", ""),
           "#default", NilResolver, "", EmptyMap)

LoggerConfigs ==
    {[TestConfig EXCEPT !.Provider = p, !.SendMethod = m, !.Token = tk] :
        p \in {"", "slack", "lark", "unknown"},
        m \in {MethodWebClient, MethodWebhook, "ftp"},
        tk \in {"", "dummy-token"}}
    \cup {[TestConfig EXCEPT !.ChannelResolver = rs] : rs \in Resolvers}
    \cup {[TestConfig EXCEPT !.Token = "", !.SlackToken = "xoxb", !.SendMethod = MethodWebClient],
          [TestConfig EXCEPT !.Channel = ""],
          [TestConfig EXCEPT !.Provider = "lark", !.SendMethod = MethodWebClient,
                             !.Environment = "dev",
                             !.LarkToken = LarkTokenConfig("app", "secret")]}
    \cup {[TestConfig EXCEPT !.Provider = "", !.ProviderConfig = pcfg] :
             pcfg \in ProviderConfigs}

\* In the Logger specification the external store is not reachable and each
\* upstream request either succeeds or fails in one way; the Lark
\* specification draws the rest.
LoggerProfile ==
    [pings |-> {FALSE}, ops |-> {TRUE},
     tokReplies |-> {TokReply(FALSE, FALSE, 0, "", 0), TokReply(TRUE, TRUE, 0, "t1", 3600)},
     listings |-> {"first", "absent"}, failKinds |-> {},
     posts |-> {PostReply(FALSE, 0, FALSE), PostReply(TRUE, 200, TRUE),
                PostReply(TRUE, 200, FALSE), PostReply(TRUE, 500, FALSE)}]

NoCall ==
    [op |-> "none", provider |-> "", level |-> INFO, message |-> "", trace |-> "",
     channel |-> "", passed |-> NilAttachment, err |-> NoError, calls |-> <<>>,
     consulted |-> FALSE, http |-> <<>>]

\* The states the other specifications leave alone.
NoCacheCall ==
    [op |-> "none", key |-> "", value |-> "", found |-> FALSE, ttl |-> 0, at |-> 0,
     before |-> EmptyData]
IdleCache == lastCache = NoCacheCall /\ hist = <<>>
NoLarkCall ==
    [op |-> "none", appID |-> "", appSecret |-> "", at |-> 0, token |-> "", err |-> NoError,
     http |-> <<>>, read |-> "", write |-> "", expire |-> 0, found |-> "",
     prev |-> [set |-> FALSE, value |-> "", at |-> 0, expire |-> 0, kept |-> FALSE]]
IdleLark == lastLark = NoLarkCall
IdleConc == pc = <<>> /\ loc = <<>>

LoggerInit ==
    /\ \E logger \in {NewLogger(cfg) : cfg \in LoggerConfigs} :
          /\ config = logger.config
          /\ provider = logger.provider
    /\ callerAtt \in CallerAttachments
    /\ lastLog = NoCall
    /\ data = EmptyData /\ redis = EmptyRedis /\ now = 0
    /\ IdleCache /\ IdleLark /\ IdleConc

\* One call through dispatcher p, recorded as operation op.
LoggerCall(op, name, p, level, message, usePointer, trace, channel) ==
    LET attachment == IF usePointer THEN callerAtt ELSE NilAttachment
    IN  /\ lastLog = NoCall
        /\ usePointer => Len(callerAtt.Content) <= MaxContentLen
        /\ \E env \in SendEnvs(LoggerProfile, config, level, channel) :
              \E out \in {SendVia(p, config, level, message, attachment, trace, channel,
                                  env, data, redis, now)} :
                  /\ lastLog' = [op |-> op, provider |-> name, level |-> level,
                                 message |-> message, trace |-> trace, channel |-> channel,
                                 passed |-> attachment, err |-> out.err, calls |-> out.calls,
                                 consulted |-> out.consulted, http |-> out.http]
                  /\ callerAtt' = IF usePointer THEN out.object ELSE callerAtt
                  /\ config' = out.config
                  /\ data' = out.data
                  /\ redis' = out.redis
        /\ UNCHANGED <<provider, now, cacheVars, lastLark, concVars>>

\* Logger.Send
Send(level, message, usePointer, trace) ==
    LoggerCall("Send", "", provider, level, message, usePointer, trace, "")

\* Logger.SendToChannel
SendToChannel(level, message, usePointer, trace, channel) ==
    LoggerCall("SendToChannel", "", provider, level, message, usePointer, trace, channel)

\* Logger.CustomSend
CustomSend(name, level, message, usePointer, trace, channel) ==
    LoggerCall("CustomSend", name, createProvider(name), level, message, usePointer,
               trace, channel)

\* The caller takes the result of its call and goes on.
LoggerReturn ==
    /\ lastLog # NoCall
    /\ lastLog' = NoCall
    /\ UNCHANGED <<config, provider, callerAtt, storeVars, cacheVars, lastLark, concVars>>

\* The caller builds a new attachment object for its next calls.
NewAttachment(a) ==
    /\ lastLog = NoCall
    /\ callerAtt # a
    /\ callerAtt' = a
    /\ UNCHANGED <<config, provider, lastLog, storeVars, cacheVars, lastLark, concVars>>

LoggerNext ==
    \/ \E level \in Levels, message \in Messages, usePointer \in BOOLEAN, trace \in Traces :
          Send(level, message, usePointer, trace)
    \/ \E level \in Levels, message \in Messages, usePointer \in BOOLEAN, trace \in Traces,
          channel \in ChannelOverrides :
          SendToChannel(level, message, usePointer, trace, channel)
    \/ \E name \in ProviderNames, level \in Levels, message \in Messages,
          usePointer \in BOOLEAN, trace \in Traces, channel \in ChannelOverrides :
          CustomSend(name, level, message, usePointer, trace, channel)
    \/ LoggerReturn
    \/ \E a \in CallerAttachments : NewAttachment(a)

LoggerSpec == LoggerInit /\ [][LoggerNext]_vars

-----------------------------------------------------------------------------
(* Claims on the Logger, checked under LoggerSpec.                         *)

Called == lastLog.op # "none"

\* The message POSTs among the requests of the last call.
MessagePosts ==
    {i \in 1..Len(lastLog.http) :
        lastLog.http[i].kind \in {"slack-webhook", "slack-api", "lark-webhook", "lark-api"}}

C2_OneDispatchResultReturned ==
    (Called /\ lastLog.level # INFO) =>
        /\ Len(lastLog.calls) = 1
        /\ lastLog.calls[1].provider =
              (IF lastLog.op = "CustomSend" THEN createProvider(lastLog.provider)
               ELSE provider)
        /\ lastLog.err = lastLog.calls[1].result
        /\ Cardinality(MessagePosts) <= 1

C2_Witness ==
    /\ lastLog.op = "Send" /\ lastLog.level = WARN
    /\ Len(lastLog.calls) = 1
    /\ lastLog.err = "slack webhook response: 500"
    /\ Cardinality(MessagePosts) = 1

\* C3: the channel the dispatcher is handed is the override when it is not
\* empty, else the resolver's result for the level when a resolver is
\* configured, else the configured default channel; the resolver is not
\* consulted when an override is given.
C3_ChannelPrecedence ==
    (Called /\ lastLog.level # INFO) =>
        LET expected ==
                IF lastLog.channel # "" THEN lastLog.channel
                ELSE IF ~config.ChannelResolver.nil
                     THEN ResolveChannel(config.ChannelResolver, lastLog.level)
                     ELSE config.Channel
        IN  /\ \A i \in 1..Len(lastLog.calls) :
                  /\ lastLog.calls[i].channel = expected
                  /\ lastLog.calls[i].cfg.Channel = expected
            /\ lastLog.channel # "" => ~lastLog.consulted
            /\ (lastLog.channel = "" /\ ~config.ChannelResolver.nil) => lastLog.consulted

C3_Witness ==
    /\ lastLog.op = "SendToChannel" /\ lastLog.level = ERROR
    /\ lastLog.channel = "#custom"
    /\ ~config.ChannelResolver.nil
    /\ ResolveChannel(config.ChannelResolver, ERROR) = "#errors"
    /\ Len(lastLog.calls) = 1 /\ lastLog.calls[1].channel = "#custom"

-----------------------------------------------------------------------------
(* The InMemoryCache with one caller: each call runs from its first to its *)
(* last statement with no other call in between, the sweep of the          *)
(* background worker included.  hist[k] is the most recent Set on k that   *)
(* no Delete(k) followed: its value, its clock reading and its ttl.        *)
(* lastCache is the last call: its arguments, the clock reading it took,   *)
(* the map it found and what it returned.                                  *)

CacheKeys == {"k1", "k2"}
CacheValues == {"v1", "v2"}

\* The largest ttl a caller passes to Set; the ttls go from -1 (a negative
\* duration) over 0 to MaxTTL.
MaxTTL == 1
TTLs == (-1)..MaxTTL

\* The last clock reading.
MaxClock == 2

NoSet == [set |-> FALSE, value |-> "", at |-> 0, ttl |-> 0]
LastSet(value, at, ttl) == [set |-> TRUE, value |-> value, at |-> at, ttl |-> ttl]

IdleLogger ==
    /\ config = NewLogger(TestConfig).config
    /\ provider = createProvider("slack")
    /\ callerAtt = NilAttachment
    /\ lastLog = NoCall

CacheInit ==
    /\ IdleLogger
    /\ data = EmptyData /\ redis = EmptyRedis /\ now = 0
    /\ lastCache = NoCacheCall
    /\ hist = [k \in CacheKeys |-> NoSet]
    /\ IdleLark /\ IdleConc

CacheCall(op, key, value, found, ttl) ==
    [op |-> op, key |-> key, value |-> value, found |-> found, ttl |-> ttl, at |-> now,
     before |-> data]

\* InMemoryCache.Set(key, value, ttl)
Set(key, value, ttl) ==
    /\ data' = CacheSet(data, key, value, ttl, now)
    /\ hist' = [hist EXCEPT ![key] = LastSet(value, now, ttl)]
    /\ lastCache' = CacheCall("Set", key, value, FALSE, ttl)
    /\ UNCHANGED <<loggerVars, redis, now, lastLark, concVars>>

\* InMemoryCache.Get(key)
Get(key) ==
    /\ \E got \in {CacheGet(data, key, now)} :
          /\ data' = got.data
          /\ lastCache' = CacheCall("Get", key, got.value, got.found, 0)
    /\ UNCHANGED <<loggerVars, redis, now, hist, lastLark, concVars>>

\* InMemoryCache.Delete(key)
Delete(key) ==
    /\ data' = CacheDelete(data, key)
    /\ hist' = [hist EXCEPT ![key] = NoSet]
    /\ lastCache' = CacheCall("Delete", key, "", FALSE, 0)
    /\ UNCHANGED <<loggerVars, redis, now, lastLark, concVars>>

\* One run of cleanupExpired, from the ticker of cleanupWorker.
Sweep ==
    /\ data' = cleanupExpired(data, now)
    /\ lastCache' = CacheCall("Sweep", "", "", FALSE, 0)
    /\ UNCHANGED <<loggerVars, redis, now, hist, lastLark, concVars>>

\* The clock goes on.
Tick ==
    /\ now < MaxClock
    /\ now' = now + 1
    /\ UNCHANGED <<loggerVars, data, redis, cacheVars, lastLark, concVars>>

CacheNext ==
    \/ \E key \in CacheKeys, value \in CacheValues, ttl \in TTLs : Set(key, value, ttl)
    \/ \E key \in CacheKeys : Get(key)
    \/ \E key \in CacheKeys : Delete(key)
    \/ Sweep
    \/ Tick

CacheSpec == CacheInit /\ [][CacheNext]_vars

\* The last Set on the key of the last call.
Recent == hist[lastCache.key]

\* C4 as stated: Get(k) returns (v, true) exactly when the most recent Set on
\* k stored v with ttl > 0, no Delete(k) followed it and its ttl has not
\* elapsed; in every other case it returns ("", false).
C4_AsStated ==
    lastCache.op = "Get" =>
        IF Recent.set /\ Recent.ttl > 0 /\ lastCache.at <= Recent.at + Recent.ttl
        THEN lastCache.found /\ lastCache.value = Recent.value
        ELSE ~lastCache.found /\ lastCache.value = ""

\* C4, amended: Get(k) returns (v, true) exactly when the most recent Set on
\* k stored v, no Delete(k) followed it and the clock reading of the Get is
\* not after the reading of that Set plus its ttl (whatever the ttl); in
\* every other case it returns ("", false).
C4_GetReturnsLastLiveSet ==
    lastCache.op = "Get" =>
        IF Recent.set /\ lastCache.at <= Recent.at + Recent.ttl
        THEN lastCache.found /\ lastCache.value = Recent.value
        ELSE ~lastCache.found /\ lastCache.value = ""

C4_Witness ==
    /\ lastCache.op = "Get" /\ lastCache.found
    /\ Recent.ttl > 0 /\ lastCache.at = Recent.at + Recent.ttl
    /\ lastCache.value = "v2"
    /\ \E k \in CacheKeys : k # lastCache.key /\ ~hist[k].set

\* C5: a Get on an entry whose expiry has passed returns a miss, removes
\* that entry from the map and leaves every other entry as it was; a Get on
\* a live or absent key leaves the map as it was.
C5_LazyEvictionFrame ==
    lastCache.op = "Get" =>
        IF lastCache.key \in DOMAIN lastCache.before
           /\ lastCache.at > lastCache.before[lastCache.key].expiry
        THEN /\ ~lastCache.found
             /\ DOMAIN data = DOMAIN lastCache.before \ {lastCache.key}
             /\ \A k \in DOMAIN data : data[k] = lastCache.before[k]
        ELSE data = lastCache.before

C5_Witness ==
    /\ lastCache.op = "Get"
    /\ lastCache.key \in DOMAIN lastCache.before
    /\ lastCache.key \notin DOMAIN data
    /\ \E k \in DOMAIN data : lastCache.at > data[k].expiry

-----------------------------------------------------------------------------
(* The InMemoryCache with concurrent callers.  sync.Map makes each Load,    *)
(* Store, Delete and each visit of Range one step; a Get is a Load, a      *)
(* clock reading and, for an expired item, a Delete; cleanupExpired is a   *)
(* clock reading, a Range that visits each key once (seeing what the map    *)
(* holds for it at the visit), and one Delete per key it collected.  Set    *)
(* (a clock reading and a Store) and Delete are one step, taken by any     *)
(* goroutine.  pc[p] is the statement goroutine p is at, loc[p] its local  *)
(* variables.                                                              *)

Getters == {"g1", "g2"}
Sweeper == "sweeper"
Procs == Getters \cup {Sweeper}

\* The keys, values and ttls the concurrent callers use.
ConcKeys == {"k1"}
ConcTTLs == 0..MaxTTL

NoLocal ==
    [key |-> "", item |-> cacheItem("", 0), now |-> 0, visited |-> {},
     expiredKeys |-> <<>>, removed |-> {}]

ConcInit ==
    /\ IdleLogger
    /\ data = EmptyData /\ redis = EmptyRedis /\ now = 0
    /\ lastCache = NoCacheCall
    /\ hist = [k \in CacheKeys |-> NoSet]
    /\ IdleLark
    /\ pc = [p \in Procs |-> "idle"]
    /\ loc = [p \in Procs |-> NoLocal]

ConcFrame == UNCHANGED <<loggerVars, redis, lastCache, lastLark>>

\* Set: expiry := time.Now().Add(duration); c.data.Store(key, item)
ConcSet(key, value, ttl) ==
    /\ data' = CacheSet(data, key, value, ttl, now)
    /\ hist' = [hist EXCEPT ![key] = LastSet(value, now, ttl)]
    /\ UNCHANGED <<now, concVars>> /\ ConcFrame

\* Delete: c.data.Delete(key)
ConcDelete(key) ==
    /\ key \in DOMAIN data
    /\ data' = CacheDelete(data, key)
    /\ hist' = [hist EXCEPT ![key] = NoSet]
    /\ UNCHANGED <<now, concVars>> /\ ConcFrame

\* Get: value, exists := c.data.Load(key); a missing key returns at once.
GetLoad(p, key) ==
    /\ pc[p] = "idle"
    /\ key \in DOMAIN data
    /\ pc' = [pc EXCEPT ![p] = "loaded"]
    /\ loc' = [loc EXCEPT ![p] = [NoLocal EXCEPT !.key = key, !.item = data[key]]]
    /\ UNCHANGED <<data, now, hist>> /\ ConcFrame

\* Get: if time.Now().After(item.expiry) -- else it returns item.value.
GetCheck(p) ==
    /\ pc[p] = "loaded"
    /\ IF Expired(loc[p].item, now)
       THEN pc' = [pc EXCEPT ![p] = "delete"] /\ loc' = loc
       ELSE pc' = [pc EXCEPT ![p] = "idle"] /\ loc' = [loc EXCEPT ![p] = NoLocal]
    /\ UNCHANGED <<data, now, hist>> /\ ConcFrame

\* Get: c.data.Delete(key); return "", false
GetDelete(p) ==
    /\ pc[p] = "delete"
    /\ data' = MapDelete(data, loc[p].key)
    /\ pc' = [pc EXCEPT ![p] = "idle"]
    /\ loc' = [loc EXCEPT ![p] = NoLocal]
    /\ UNCHANGED <<now, hist>> /\ ConcFrame

\* cleanupExpired: now := time.Now(), on a tick of cleanupWorker's ticker.
SweepBegin ==
    /\ pc[Sweeper] = "idle"
    /\ pc' = [pc EXCEPT ![Sweeper] = "range"]
    /\ loc' = [loc EXCEPT ![Sweeper] = [NoLocal EXCEPT !.now = now]]
    /\ UNCHANGED <<data, now, hist>> /\ ConcFrame

\* cleanupExpired: one visit of c.data.Range.
SweepVisit(key) ==
    /\ pc[Sweeper] = "range"
    /\ key \notin loc[Sweeper].visited
    /\ loc' = [loc EXCEPT ![Sweeper].visited = @ \cup {key},
                          ![Sweeper].expiredKeys =
                              IF key \in DOMAIN data /\ Expired(data[key], loc[Sweeper].now)
                              THEN Append(@, key) ELSE @]
    /\ pc' = [pc EXCEPT ![Sweeper] =
                  IF loc[Sweeper].visited \cup {key} = ConcKeys THEN "delete" ELSE "range"]
    /\ UNCHANGED <<data, now, hist>> /\ ConcFrame

\* cleanupExpired: c.data.Delete(key) for the next key of expiredKeys.
\* removed collects the entries this run took out of the map.
SweepDelete ==
    /\ pc[Sweeper] = "delete"
    /\ loc[Sweeper].expiredKeys # <<>>
    /\ \E key \in {Head(loc[Sweeper].expiredKeys)} :
          /\ data' = MapDelete(data, key)
          /\ loc' = [loc EXCEPT ![Sweeper].expiredKeys = Tail(@),
                                ![Sweeper].removed =
                                    IF key \in DOMAIN data
                                    THEN @ \cup {[key |-> key, item |-> data[key]]}
                                    ELSE @]
    /\ UNCHANGED <<pc, now, hist>> /\ ConcFrame

\* cleanupExpired returns; the worker waits for the next tick.
SweepEnd ==
    /\ pc[Sweeper] = "delete"
    /\ loc[Sweeper].expiredKeys = <<>>
    /\ pc' = [pc EXCEPT ![Sweeper] = "idle"]
    /\ loc' = [loc EXCEPT ![Sweeper] = NoLocal]
    /\ UNCHANGED <<data, now, hist>> /\ ConcFrame

ConcTick ==
    /\ now < MaxClock
    /\ now' = now + 1
    /\ UNCHANGED <<data, hist, concVars>> /\ ConcFrame

ConcNext ==
    \/ \E key \in ConcKeys, value \in CacheValues, ttl \in ConcTTLs : ConcSet(key, value, ttl)
    \/ \E key \in ConcKeys : ConcDelete(key)
    \/ \E p \in Getters, key \in ConcKeys : GetLoad(p, key)
    \/ \E p \in Getters : GetCheck(p)
    \/ \E p \in Getters : GetDelete(p)
    \/ SweepBegin
    \/ \E key \in ConcKeys : SweepVisit(key)
    \/ SweepDelete
    \/ SweepEnd
    \/ ConcTick

ConcSpec == ConcInit /\ [][ConcNext]_vars

\* C6: under every interleaving no update is lost: the value of the last
\* Set on a key, while its ttl has not elapsed and no Delete of the key
\* followed, is what a Get of the key returns; a removal started by a Get or
\* by the sweep for an expired item never takes out a value stored since.
C6_NoLostUpdate ==
    \A k \in ConcKeys :
        (hist[k].set /\ now <= hist[k].at + hist[k].ttl) =>
            /\ CacheGet(data, k, now).found
            /\ CacheGet(data, k, now).value = hist[k].value

\* C7: a run of the sweep takes out no entry whose expiry had not passed at
\* the clock reading of the run, and when it returns no entry it saw
\* expired is left.
C7_SweepRemovesExactlyExpired ==
    /\ \A x \in loc[Sweeper].removed : Expired(x.item, loc[Sweeper].now)
    /\ (pc[Sweeper] = "delete" /\ loc[Sweeper].expiredKeys = <<>>) =>
           \A x \in loc[Sweeper].removed : x.key \notin DOMAIN data \/ data[x.key] # x.item

-----------------------------------------------------------------------------
(* The Lark token layer over time.  A call of getTenantAccessToken is one   *)
(* action; the caller takes its result (LarkReturn) before the next call   *)
(* or clock reading.  The token endpoint issues a token of its own at each *)
(* clock reading; a body without code and token (such as {}) decodes to    *)
(* code 0 and the empty token.  hist[c] is the most recent reply with code *)
(* 0 for the credentials c: its token, the clock reading, its expire, and  *)
(* whether the external store took it.                                     *)

Creds == {<<"app", "secret">>}

\* The expire values the token endpoint replies with.
ExpireValues == {-1, 300, 600, 601, 660, 3600}

\* The clock readings of the Lark specification, in seconds.
LarkClock == {0, 1, 2, 60, 61}

LarkConfigs ==
    {[TestConfig EXCEPT !.Provider = "lark", !.SendMethod = MethodWebClient,
                        !.Environment = "dev", !.LarkToken = LarkTokenConfig("app", "secret"),
                        !.ProviderConfig = pcfg] : pcfg \in {EmptyMap, RedisSettings}}

IssuedToken(t) == "t-" \o ToString(t)

LarkProfile(t) ==
    [pings |-> BOOLEAN, ops |-> BOOLEAN,
     tokReplies |-> {TokReply(FALSE, FALSE, 0, "", 0), TokReply(TRUE, FALSE, 0, "", 0),
                     TokReply(TRUE, TRUE, 99991663, "", 0), TokReply(TRUE, TRUE, 0, "", 0)}
                    \cup {TokReply(TRUE, TRUE, 0, IssuedToken(t), e) : e \in ExpireValues},
     listings |-> {"first"}, failKinds |-> {},
     posts |-> {PostReply(TRUE, 200, TRUE)}]

NoFetch == [set |-> FALSE, value |-> "", at |-> 0, expire |-> 0, kept |-> FALSE]
Fetch(value, at, expire, kept) ==
    [set |-> TRUE, value |-> value, at |-> at, expire |-> expire, kept |-> kept]

LarkInit ==
    /\ \E logger \in {NewLogger(cfg) : cfg \in LarkConfigs} :
          /\ config = logger.config
          /\ provider = logger.provider
    /\ callerAtt = NilAttachment
    /\ lastLog = NoCall
    /\ data = EmptyData /\ redis = EmptyRedis /\ now = 0
    /\ lastCache = NoCacheCall
    /\ hist = [c \in Creds |-> NoFetch]
    /\ lastLark = NoLarkCall
    /\ IdleConc

\* What a getTenantAccessToken call met and did: where it read the cached
\* token from (the external store, the in-process cache, or a failed GET),
\* the live token the external store held under the key, whether the
\* endpoint's token went to the external store, and the reply's expire.
TokenCall(appID, appSecret, env, out) ==
    LET fetched == out.http # <<>> /\ out.err = NoError
        key == TokenKey(appID, appSecret)
    IN  [op |-> "token", appID |-> appID, appSecret |-> appSecret, at |-> now,
         token |-> out.token, err |-> out.err, http |-> out.http,
         read |-> IF ~getRedisClient(config, env.ping1) THEN "memory"
                  ELSE IF env.rget THEN "redis" ELSE "error",
         write |-> IF ~fetched THEN "none"
                   ELSE IF getRedisClient(config, env.ping2) /\ env.rset THEN "redis"
                   ELSE "skipped",
         expire |-> IF fetched THEN env.tok.expire ELSE 0,
         found |-> IF RedisLive(redis, key, now) THEN redis[key].value ELSE "",
         prev |-> hist[<<appID, appSecret>>]]

\* getTenantAccessToken(cfg, appID, appSecret)
GetTenantAccessToken(appID, appSecret) ==
    /\ lastLark = NoLarkCall
    /\ \E env \in TokenEnvs(BaseEnv, LarkProfile(now)) :
          \E out \in {getTenantAccessToken(config, appID, appSecret, env, data, redis, now)} :
             \E call \in {TokenCall(appID, appSecret, env, out)} :
                /\ data' = out.data
                /\ redis' = out.redis
                /\ lastLark' = call
                /\ hist' = IF call.write = "none" THEN hist
                           ELSE [hist EXCEPT ![<<appID, appSecret>>] =
                                    Fetch(out.token, now, call.expire, call.write = "redis")]
    /\ UNCHANGED <<loggerVars, now, lastCache, concVars>>

\* The caller takes the result of its call and goes on.
LarkReturn ==
    /\ lastLark # NoLarkCall
    /\ lastLark' = NoLarkCall
    /\ UNCHANGED <<loggerVars, storeVars, cacheVars, concVars>>

\* The clock goes on to a later reading.
LarkTick(t) ==
    /\ lastLark = NoLarkCall
    /\ t > now
    /\ now' = t
    /\ UNCHANGED <<loggerVars, data, redis, cacheVars, lastLark, concVars>>

LarkNext ==
    \/ \E c \in Creds : GetTenantAccessToken(c[1], c[2])
    \/ LarkReturn
    \/ \E t \in LarkClock : LarkTick(t)

LarkSpec == LarkInit /\ [][LarkNext]_vars

TokenCalled == lastLark.op = "token"

\* The key the claims name for the credentials of the last call.
ClaimedKey == "commonlog_lark_token:" \o lastLark.appID \o ":" \o lastLark.appSecret

\* The TTL the claims state for an expire value.
ClaimedTTL(expire) == IF expire - 600 > 0 THEN expire - 600 ELSE 60

\* The requests of the last call to the token endpoint.
EndpointCalls == {i \in 1..Len(lastLark.http) : lastLark.http[i].url = TokenURL}

\* C8: when the external store is not configured or not reachable, a token
\* the endpoint issued is stored in the in-process cache, and a later
\* request with the same credentials before the TTL elapses returns it
\* without calling the endpoint.
C8_InProcessFallback ==
    TokenCalled =>
        /\ lastLark.write = "skipped" =>
               /\ ClaimedKey \in DOMAIN data
               /\ data[ClaimedKey].value = lastLark.token
        /\ ( /\ lastLark.read = "memory"
             /\ lastLark.prev.set /\ ~lastLark.prev.kept /\ lastLark.prev.value # ""
             /\ lastLark.at <= lastLark.prev.at + ClaimedTTL(lastLark.prev.expire) ) =>
               /\ lastLark.token = lastLark.prev.value
               /\ EndpointCalls = {}

\* C9: with the external store reachable, a request that finds a token
\* under commonlog_lark_token:<app_id>:<app_secret> returns it and does not
\* call the endpoint; on a miss it calls the endpoint once and a token the
\* endpoint issues is stored under that key; a request within the TTL
\* window of the last token stored for the credentials does not call the
\* endpoint.  A token is a non-empty string.
C9_ReadThrough ==
    (TokenCalled /\ lastLark.read = "redis") =>
        /\ lastLark.found # "" =>
               /\ lastLark.token = lastLark.found
               /\ lastLark.err = NoError
               /\ lastLark.http = <<>>
        /\ lastLark.found = "" =>
               /\ Cardinality(EndpointCalls) = 1 /\ Len(lastLark.http) = 1
               /\ lastLark.write = "redis" =>
                      /\ ClaimedKey \in DOMAIN redis
                      /\ redis[ClaimedKey].value = lastLark.token
                      /\ RedisLive(redis, ClaimedKey, lastLark.at)
        /\ ( /\ lastLark.prev.set /\ lastLark.prev.kept /\ lastLark.prev.value # ""
             /\ lastLark.at <= lastLark.prev.at + ClaimedTTL(lastLark.prev.expire) ) =>
               /\ lastLark.token = lastLark.prev.value
               /\ EndpointCalls = {}

C9_Witness ==
    /\ TokenCalled /\ lastLark.read = "redis"
    /\ lastLark.prev.set /\ lastLark.prev.kept
    /\ lastLark.at = 61 /\ lastLark.prev.at = 1 /\ lastLark.prev.expire = 300
    /\ lastLark.token = IssuedToken(1)
    /\ lastLark.http = <<>>

\* C10: the token the endpoint issued is stored with a TTL of expire - 600
\* seconds when that is positive and of 60 seconds when it is zero or
\* negative.
C10_StoredTTL ==
    (TokenCalled /\ lastLark.write = "redis") =>
        /\ ClaimedKey \in DOMAIN redis
        /\ ~redis[ClaimedKey].persistent
        /\ redis[ClaimedKey].expiry - lastLark.at =
              (IF lastLark.expire - 600 > 0 THEN lastLark.expire - 600 ELSE 60)

C10_Witness ==
    /\ TokenCalled /\ lastLark.write = "redis"
    /\ lastLark.expire = 300
    /\ redis[ClaimedKey].expiry = lastLark.at + 60
    /\ lastLark.prev.set /\ lastLark.prev.kept /\ lastLark.prev.expire = 3600

\* The TTL the external store holds for the token of the last call.
StoredTTL == redis[ClaimedKey].expiry - lastLark.at

\* C11 as stated: the TTL of the cached token is never below 60 seconds.
C11_AsStated ==
    (TokenCalled /\ lastLark.write = "redis") =>
        /\ ~redis[ClaimedKey].persistent
        /\ StoredTTL >= 60

\* C11, amended: the TTL of the cached token is never below 1 second, and it
\* is below 60 seconds exactly when the lifetime minus the 10-minute margin
\* is between 1 and 59 seconds (expire from 601 to 659); a lifetime of 600
\* seconds or less is stored for 60 seconds.
C11_TTLFloor ==
    (TokenCalled /\ lastLark.write = "redis") =>
        /\ ~redis[ClaimedKey].persistent
        /\ StoredTTL >= 1
        /\ StoredTTL < 60 <=> lastLark.expire \in 601..659
        /\ lastLark.expire <= 600 => StoredTTL = 60

C11_Witness ==
    /\ TokenCalled /\ lastLark.write = "redis"
    /\ lastLark.expire = 601
    /\ StoredTTL = 1

-----------------------------------------------------------------------------
(* The chat-id lookup over time: getChatIDFromChannelName calls for one    *)
(* channel of one environment, each under every Redis outcome, listing and *)
(* request failure, a clock that passes the 30 days of the in-memory       *)
(* entry, and the sweep of the global cache.  hist[c] holds, for each      *)
(* store, the chat id the last lookup that listed the channels wrote there *)
(* and when.                                                               *)

ChannelNames == {"alerts"}

ChatClock ==
    {0, 1, ChatIDMemorySeconds, ChatIDMemorySeconds + 1, ChatIDMemorySeconds + 2}

ListingFailures ==
    {"transport error", "lark chats API response: 500", "decode error",
     "lark API error: msg"}

ChatProfile ==
    [pings |-> BOOLEAN, ops |-> BOOLEAN, tokReplies |-> {},
     listings |-> {"none", "first", "second", "absent", "twice", "third"},
     failKinds |-> ListingFailures, posts |-> {}]

NoStored == [set |-> FALSE, value |-> "", at |-> 0]
NoLookup == [redis |-> NoStored, memory |-> NoStored]

NoChatCall ==
    [op |-> "none", channel |-> "", at |-> 0, chatID |-> "", err |-> NoError,
     http |-> <<>>, read |-> "", write |-> "", listing |-> <<>>, failAt |-> 0,
     prev |-> NoLookup, before |-> [data |-> EmptyData, redis |-> EmptyRedis]]

ChatInit ==
    /\ \E logger \in {NewLogger(cfg) : cfg \in LarkConfigs} :
          /\ config = logger.config
          /\ provider = logger.provider
    /\ callerAtt = NilAttachment
    /\ lastLog = NoCall
    /\ data = EmptyData /\ redis = EmptyRedis /\ now = 0
    /\ lastCache = NoCacheCall
    /\ hist = [c \in ChannelNames |-> NoLookup]
    /\ lastLark = NoChatCall
    /\ IdleConc

\* What a getChatIDFromChannelName call met and did: the store it read the
\* cached chat id from, the store it wrote the listed chat id to, the listing
\* the server held and the request that failed.
ChatCall(channelName, env, out) ==
    LET listed == out.http # <<>> /\ out.err = NoError
    IN  [op |-> "chat", channel |-> channelName, at |-> now,
         chatID |-> out.chatID, err |-> out.err, http |-> out.http,
         read |-> IF ~getRedisClient(config, env.ping3) THEN "memory"
                  ELSE IF env.rgetc THEN "redis" ELSE "error",
         write |-> IF ~listed THEN "none"
                   ELSE IF ~getRedisClient(config, env.ping4) THEN "memory"
                   ELSE IF env.rsetc THEN "redis" ELSE "failed",
         listing |-> env.listing, failAt |-> env.failAt,
         prev |-> hist[channelName],
         before |-> [data |-> data, redis |-> redis]]

\* One lookup of channelName with the token "t-0".
GetChatID(channelName) ==
    /\ lastLark = NoChatCall
    /\ \E env \in ChatEnvs(BaseEnv, ChatProfile, channelName) :
       \E out \in {getChatIDFromChannelName(config, "t-0", channelName, env,
                                            data, redis, now)} :
       \E call \in {ChatCall(channelName, env, out)} :
          /\ lastLark' = call
          /\ data' = out.data
          /\ redis' = out.redis
          /\ hist' = IF call.write \in {"redis", "memory"}
                     THEN [hist EXCEPT ![channelName][call.write] =
                              [set |-> TRUE, value |-> out.chatID, at |-> now]]
                     ELSE hist
    /\ UNCHANGED <<loggerVars, now, lastCache, concVars>>

\* The caller takes the result.
ChatReturn ==
    /\ lastLark # NoChatCall
    /\ lastLark' = NoChatCall
    /\ UNCHANGED <<loggerVars, storeVars, cacheVars, concVars>>

\* The clock goes on to a later reading.
ChatTick(t) ==
    /\ lastLark = NoChatCall
    /\ t > now
    /\ now' = t
    /\ UNCHANGED <<loggerVars, data, redis, cacheVars, lastLark, concVars>>

\* The sweep of the global cache.
ChatSweep ==
    /\ lastLark = NoChatCall
    /\ data' = cleanupExpired(data, now)
    /\ data' # data
    /\ UNCHANGED <<loggerVars, redis, now, cacheVars, lastLark, concVars>>

ChatNext ==
    \/ \E c \in ChannelNames : GetChatID(c)
    \/ ChatReturn
    \/ \E t \in ChatClock : ChatTick(t)
    \/ ChatSweep

ChatSpec == ChatInit /\ [][ChatNext]_vars

ChatCalled == lastLark.op = "chat"

\* The key the claims name for the channel of the last call.
ClaimedChatKey(c) == "commonlog_lark_chat_id:" \o config.Environment \o ":" \o c

MatchPages ==
    {i \in 1..Len(lastLark.listing) :
        \E j \in 1..Len(lastLark.listing[i]) :
            lastLark.listing[i][j].Name = lastLark.channel}

StopPage ==
    IF MatchPages # {}
    THEN CHOOSE i \in MatchPages : \A h \in MatchPages : i <= h
    ELSE IF Len(lastLark.listing) = 0 THEN 1 ELSE Len(lastLark.listing)

\* C14: on a cache miss with no failing request, the lookup requests the
\* pages in order, the first without a page_token and each later one with
\* the page_token the previous response gave, up to and including the first
\* page with an item named exactly as the channel, whose chat id (of the
\* first such item) it returns, or up to the last page, after which it
\* returns the error "channel '<name>' not found" and no chat id.
C14_Pagination ==
    ( /\ ChatCalled /\ lastLark.http # <<>>
      /\ lastLark.failAt = 0 \/ lastLark.failAt > StopPage ) =>
        /\ Len(lastLark.http) = StopPage
        /\ \A i \in 1..Len(lastLark.http) :
              lastLark.http[i].url =
                  "https://open.larksuite.com/open-apis/im/v1/chats?page_size=10"
                  \o (IF i = 1 THEN "" ELSE "&page_token=" \o PageToken(i))
        /\ IF MatchPages # {}
           THEN /\ lastLark.err = NoError
                /\ \E j \in 1..Len(lastLark.listing[StopPage]) :
                      /\ lastLark.listing[StopPage][j].Name = lastLark.channel
                      /\ \A h \in 1..(j - 1) :
                            lastLark.listing[StopPage][h].Name # lastLark.channel
                      /\ lastLark.chatID = lastLark.listing[StopPage][j].ChatID
           ELSE /\ lastLark.chatID = ""
                /\ lastLark.err = "channel '" \o lastLark.channel \o "' not found"

C14_Witness ==
    /\ ChatCalled /\ lastLark.failAt = 0
    /\ lastLark.listing = ListingOf("third", lastLark.channel)
    /\ Len(lastLark.http) = 3
    /\ lastLark.http[3].url =
          "https://open.larksuite.com/open-apis/im/v1/chats?page_size=10&page_token=p3"
    /\ lastLark.chatID = "oc_6"

-----------------------------------------------------------------------------
(* The provider dispatchers under the answers of the environment.  The     *)
(* process builds Loggers from the configurations of SendConfigs over the  *)
(* one global cache and the one external store; a step is one              *)
(* Provider.SendToChannel call of one of them, and the clock may pass the  *)
(* life of every cached entry.                                             *)

SendChannels == {"alerts"}

SendClock == {0, ChatIDMemorySeconds + 1}

SendConfigs ==
    {[TestConfig EXCEPT !.Provider = p, !.SendMethod = m, !.Token = tk,
                        !.Environment = "dev"] :
        p \in {"slack", "lark"}, m \in {MethodWebClient, MethodWebhook, "ftp"},
        tk \in {"", "http://hook", "://hook"}}
    \cup
    {[TestConfig EXCEPT !.Provider = p, !.SendMethod = m, !.Token = "",
                        !.Environment = "dev",
                        !.LarkToken = LarkTokenConfig("app", "secret"),
                        !.ProviderConfig = pcfg] :
        p \in {"slack", "lark"}, m \in {MethodWebClient, "ftp"},
        pcfg \in {EmptyMap, RedisSettings}}
    \cup
    {[TestConfig EXCEPT !.Provider = "lark", !.SendMethod = MethodWebClient,
                        !.Token = "static", !.Environment = "dev",
                        !.ProviderConfig = RedisSettings]}
    \cup
    {[TestConfig EXCEPT !.Provider = "lark", !.SendMethod = MethodWebClient,
                        !.Token = "static", !.Environment = "dev",
                        !.LarkToken = lt, !.ProviderConfig = RedisSettings] :
        lt \in {LarkTokenConfig("app", "secret"), LarkTokenConfig("app", ""),
                LarkTokenConfig("", "secret")}}
    \cup
    {[TestConfig EXCEPT !.Provider = "slack", !.SendMethod = MethodWebClient,
                        !.Token = tk, !.SlackToken = st, !.Environment = "dev"] :
        tk \in {"", "generic"}, st \in {"", "xoxb"}}

SendProfile ==
    [pings |-> BOOLEAN, ops |-> BOOLEAN,
     tokReplies |-> {TokReply(FALSE, FALSE, 0, "", 0), TokReply(TRUE, FALSE, 0, "", 0),
                     TokReply(TRUE, TRUE, 99991663, "", 0),
                     TokReplyWithStatus(500, TRUE, 0, "", 0),
                     TokReply(TRUE, TRUE, 0, "t-1", 3600)},
     listings |-> {"first", "absent"},
     failKinds |-> {"lark chats API response: 500"},
     posts |-> {PostReply(FALSE, 0, FALSE), PostReply(TRUE, 200, TRUE),
                PostReply(TRUE, 200, FALSE), PostReply(TRUE, 500, FALSE)}]

\* The environment in which the store and the upstream answer well.
GoodEnv(channel) ==
    [BaseEnv EXCEPT !.ping1 = TRUE, !.ping2 = TRUE, !.ping3 = TRUE, !.ping4 = TRUE,
                    !.tok = TokReply(TRUE, TRUE, 0, "t-1", 3600),
                    !.listing = ListingOf("first", channel),
                    !.post = PostReply(TRUE, 200, TRUE)]

\* The environments of one call of a Logger.  Only the Lark WebClient method
\* asks for a token and a chat id: its environments vary the answers to the
\* token request, or those to the chat-id lookup and the message POST, the
\* others being good.
SendCallEnvs(logger, channel) ==
    IF logger.provider = "LarkProvider" /\ logger.config.SendMethod = MethodWebClient
    THEN TokenEnvs(GoodEnv(channel), SendProfile)
         \cup UNION {PostEnvs(e, SendProfile) :
                        e \in ChatEnvs(GoodEnv(channel), SendProfile, channel)}
    ELSE PostEnvs(BaseEnv, SendProfile)

NotAsked == "not asked"

NoSendCall ==
    [op |-> "none", logger |-> NewLogger(TestConfig), channel |-> "", at |-> 0,
     err |-> NoError, http |-> <<>>,
     token |-> NotAsked, listing |-> NotAsked, post |-> NotAsked,
     before |-> [data |-> EmptyData, redis |-> EmptyRedis]]

\* How the token endpoint answered.
TokenAnswer(reply) ==
    IF ~reply.net THEN "network error"
    ELSE IF reply.status # 200 THEN "status"
    ELSE IF ~reply.decoded THEN "undecodable"
    ELSE IF reply.code # 0 THEN "code"
    ELSE "ok"

\* How the listing answered the requests sent for channelName.
ListingAnswer(env, channelName, requests) ==
    IF env.failAt \in 1..requests THEN "failed"
    ELSE IF \E i \in 1..Len(env.listing) : FindItem(env.listing[i], channelName) # 0
         THEN "ok" ELSE "not found"

\* How the message POST was answered.
PostAnswer(reply) ==
    IF ~reply.net THEN "network error"
    ELSE IF reply.status # 200 THEN "status " \o ToString(reply.status)
    ELSE IF ~reply.ok THEN "logical error"
    ELSE "ok"

\* What a Provider.SendToChannel call sent and was answered: token, listing
\* and post say how the upstream answered the requests the call sent.
SendCall(logger, channel, env, out) ==
    LET sentTo(kinds) == {i \in 1..Len(out.http) : out.http[i].kind \in kinds}
    IN  [op |-> "send", logger |-> logger, channel |-> channel, at |-> now,
         err |-> out.err, http |-> out.http,
         token |-> IF sentTo({"token"}) = {} THEN NotAsked ELSE TokenAnswer(env.tok),
         listing |-> IF sentTo({"chats"}) = {} THEN NotAsked
                     ELSE ListingAnswer(env, channel, Cardinality(sentTo({"chats"}))),
         post |-> IF sentTo({"slack-webhook", "slack-api", "lark-webhook",
                             "lark-api"}) = {}
                  THEN NotAsked ELSE PostAnswer(env.post),
         before |-> [data |-> data, redis |-> redis]]

SendInit ==
    /\ IdleLogger
    /\ data = EmptyData /\ redis = EmptyRedis /\ now = 0
    /\ IdleCache /\ IdleConc
    /\ lastLark = NoSendCall

\* One Provider.SendToChannel call of the Logger built from cfg.
ProviderSend(cfg, channel) ==
    /\ lastLark = NoSendCall
    /\ \E logger \in {NewLogger(cfg)} :
       \E env \in SendCallEnvs(logger, channel) :
       \E out \in {ProviderSendToChannel(logger.provider, ERROR, "m", NilAttachment,
                                         logger.config, channel, env,
                                         data, redis, now)} :
          /\ lastLark' = SendCall(logger, channel, env, out)
          /\ data' = out.data
          /\ redis' = out.redis
    /\ UNCHANGED <<loggerVars, now, cacheVars, concVars>>

\* The caller takes the result.
SendReturn ==
    /\ lastLark # NoSendCall
    /\ lastLark' = NoSendCall
    /\ UNCHANGED <<loggerVars, storeVars, cacheVars, concVars>>

\* The clock goes on to a later reading.
SendTick(t) ==
    /\ lastLark = NoSendCall
    /\ t > now
    /\ now' = t
    /\ UNCHANGED <<loggerVars, data, redis, cacheVars, lastLark, concVars>>

SendNext ==
    \/ \E cfg \in SendConfigs, c \in SendChannels : ProviderSend(cfg, c)
    \/ SendReturn
    \/ \E t \in SendClock : SendTick(t)

SendSpec == SendInit /\ [][SendNext]_vars

SendCalled == lastLark.op = "send"

\* The key the claims name for the chat id of the channel of the last send.
SentChatKey ==
    "commonlog_lark_chat_id:" \o lastLark.logger.config.Environment \o ":"
    \o lastLark.channel

\* The entry a store holds under a key, if any.
EntryOf(store, key) == IF key \in DOMAIN store THEN <<store[key]>> ELSE <<>>

\* The key the claims name for the token of the Logger of the last send.
SentTokenKey ==
    "commonlog_lark_token:" \o lastLark.logger.config.LarkToken.AppID \o ":"
    \o lastLark.logger.config.LarkToken.AppSecret

\* C15: when the token endpoint fails (network error, non-success status,
\* non-zero code, undecodable body) the token entry of the external store
\* and of the in-process cache is exactly as before the call; when the
\* channel listing fails or does not hold the name, so is the chat-id entry.
C15_NoWriteOnFailure ==
    SendCalled =>
        /\ lastLark.token \notin {NotAsked, "ok"} =>
               /\ EntryOf(redis, SentTokenKey) = EntryOf(lastLark.before.redis, SentTokenKey)
               /\ EntryOf(data, SentTokenKey) = EntryOf(lastLark.before.data, SentTokenKey)
        /\ lastLark.listing \in {"failed", "not found"} =>
               /\ EntryOf(redis, SentChatKey) = EntryOf(lastLark.before.redis, SentChatKey)
               /\ EntryOf(data, SentChatKey) = EntryOf(lastLark.before.data, SentChatKey)

\* The errors a send returns for its configuration alone.
ConfigurationErrors ==
    {"unknown send method for Slack: " \o lastLark.logger.config.SendMethod,
     "unknown send method for Lark: " \o lastLark.logger.config.SendMethod,
     "webhook URL is required for Slack webhook method",
     "webhook URL is required for Lark webhook method",
     Panic}

\* C16: every error a send returns comes from its configuration or from an
\* upstream call that failed (token request, channel listing, message
\* POST), never from the cache layer.
C16_CacheFailuresNotReturned ==
    (SendCalled /\ lastLark.err # NoError) =>
        \/ lastLark.err \in ConfigurationErrors
        \/ lastLark.token \notin {NotAsked, "ok"}
        \/ lastLark.listing \in {"failed", "not found"}
        \/ lastLark.post \notin {NotAsked, "ok"}

WebhookURL == lastLark.logger.config.Token

\* C19: a webhook send returns no error only when the POST was answered with
\* status 200; a network failure is returned as an error, another status as
\* an error carrying the status code, and a missing or unparsable URL never
\* yields a success.
C19_WebhookResult ==
    (SendCalled /\ lastLark.logger.config.SendMethod = "webhook") =>
        /\ lastLark.err = NoError => lastLark.post \in {"ok", "logical error"}
        /\ lastLark.post = "network error" => lastLark.err \notin {NoError, Panic}
        /\ lastLark.post = "status 500" =>
               lastLark.err =
                  (IF lastLark.logger.provider = "LarkProvider" THEN "lark" ELSE "slack")
                  \o " webhook response: 500"
        /\ WebhookURL \in {"", "://hook"} =>
               /\ lastLark.err # NoError
               /\ lastLark.http = <<>>

C19_Witness ==
    /\ SendCalled /\ lastLark.logger.config.SendMethod = "webhook"
    /\ lastLark.logger.provider = "SlackProvider"
    /\ WebhookURL = "http://hook"
    /\ lastLark.post = "status 500"
    /\ lastLark.err = "slack webhook response: 500"

\* C20: a WebClient send returns an error when the POST is answered with
\* another status than 200 or with the provider's own error code inside a
\* 200 response.
C20_WebClientResult ==
    (SendCalled /\ lastLark.logger.config.SendMethod = "webclient") =>
        (lastLark.post \in {"status 500", "logical error"} => lastLark.err # NoError)

-----------------------------------------------------------------------------
(* The selection of the provider: Loggers built from configurations that   *)
(* name the provider at the top level, in ProviderConfig, in both or in    *)
(* neither, and their sends.  hist holds the Config NewLogger was given.   *)

SelectProviderConfigs ==
    ProviderConfigs \cup {("provider" :> StrVal("slack")), ("provider" :> StrVal("unknown"))}

SelectConfigs ==
    {[TestConfig EXCEPT !.Provider = p, !.ProviderConfig = pcfg] :
        p \in {"", "slack", "lark", "unknown"}, pcfg \in SelectProviderConfigs}

SelectInit ==
    /\ \E cfg \in SelectConfigs :
          /\ config = NewLogger(cfg).config
          /\ provider = NewLogger(cfg).provider
          /\ hist = [given |-> cfg]
    /\ callerAtt = NilAttachment
    /\ lastLog = NoCall
    /\ data = EmptyData /\ redis = EmptyRedis /\ now = 0
    /\ lastCache = NoCacheCall
    /\ IdleLark /\ IdleConc

\* The program builds its Logger anew from cfg.
BuildLogger(cfg) ==
    /\ lastLog = NoCall
    /\ cfg # hist.given
    /\ config' = NewLogger(cfg).config
    /\ provider' = NewLogger(cfg).provider
    /\ hist' = [given |-> cfg]
    /\ UNCHANGED <<callerAtt, lastLog, storeVars, lastCache, lastLark, concVars>>

SelectNext ==
    \/ \E cfg \in SelectConfigs : BuildLogger(cfg)
    \/ \E level \in Levels : Send(level, "m", FALSE, "")
    \/ \E name \in ProviderNames, level \in Levels :
          CustomSend(name, level, "m", FALSE, "", "")
    \/ LoggerReturn

SelectSpec == SelectInit /\ [][SelectNext]_vars

\* The provider name the claims state for the Config NewLogger was given.
ClaimedName ==
    IF hist.given.Provider # "" THEN hist.given.Provider
    ELSE IF /\ "provider" \in DOMAIN hist.given.ProviderConfig
            /\ hist.given.ProviderConfig["provider"].t = "string"
         THEN hist.given.ProviderConfig["provider"].s
         ELSE "slack"

\* The dispatcher the claims state for a provider name.
ClaimedDispatcher(name) == IF name = "lark" THEN "LarkProvider" ELSE "SlackProvider"

\* C18: the Logger's dispatcher is the one of the top-level Provider when
\* that is not empty, else of ProviderConfig["provider"], else of "slack";
\* "lark" names the Lark dispatcher and every other name the Slack one, for
\* NewLogger and for CustomSend; a send with another level than INFO calls
\* that dispatcher, and the Slack dispatcher then posts the message.
C18_ProviderSelection ==
    /\ provider = ClaimedDispatcher(ClaimedName)
    /\ (Called /\ lastLog.level # INFO) =>
          /\ Len(lastLog.calls) = 1
          /\ lastLog.calls[1].provider =
                (IF lastLog.op = "CustomSend" THEN ClaimedDispatcher(lastLog.provider)
                 ELSE ClaimedDispatcher(ClaimedName))
          /\ lastLog.calls[1].provider = "SlackProvider" =>
                /\ Len(lastLog.http) = 1
                /\ lastLog.http[1].kind = "slack-webhook"

C18_Witness ==
    /\ hist.given.Provider = ""
    /\ hist.given.ProviderConfig = ("provider" :> StrVal("unknown"))
    /\ lastLog.op = "Send" /\ lastLog.level = ERROR
    /\ lastLog.calls[1].provider = "SlackProvider"
    /\ lastLog.http[1].kind = "slack-webhook"
    /\ lastLog.err = NoError

\* C21: a webhook send of a Logger built from a Config with an empty Token
\* returns, for Slack and for Lark, the error that the webhook URL is
\* required, and sends no request; the call returns (it does not panic).
C21_MissingWebhookURL ==
    ( /\ SendCalled /\ lastLark.logger.config.SendMethod = "webhook"
      /\ WebhookURL = "" ) =>
        /\ lastLark.err =
              "webhook URL is required for "
              \o (IF lastLark.logger.provider = "LarkProvider" THEN "Lark" ELSE "Slack")
              \o " webhook method"
        /\ lastLark.http = <<>>

\* C22: a Slack WebClient send posts the message with the Slack-specific
\* token as bearer when that is not empty and with the generic token
\* otherwise, whichever of the two the Config sets.
C22_SlackBearer ==
    ( /\ SendCalled /\ lastLark.logger.provider = "SlackProvider"
      /\ lastLark.logger.config.SendMethod = "webclient" ) =>
        /\ Len(lastLark.http) = 1
        /\ lastLark.http[1].url = "https://slack.com/api/chat.postMessage"
        /\ lastLark.http[1].bearer =
              (IF lastLark.logger.config.SlackToken # ""
               THEN lastLark.logger.config.SlackToken
               ELSE lastLark.logger.config.Token)

\* The requests of the last send that carry a bearer credential.
BearerRequests ==
    {i \in 1..Len(lastLark.http) : lastLark.http[i].kind \in {"chats", "lark-api"}}

C24_TraceMerge ==
    (Called /\ lastLog.level # INFO /\ lastLog.calls # <<>>) =>
        /\ lastLog.trace = "" => lastLog.calls[1].attachment = lastLog.passed
        /\ (lastLog.trace # "" /\ lastLog.passed.nil) =>
              lastLog.calls[1].attachment =
                 [nil |-> FALSE, URL |-> "", FileName |-> "trace.log",
                  Content |-> lastLog.trace]
        /\ (lastLog.trace # "" /\ ~lastLog.passed.nil /\ lastLog.passed.Content # "") =>
              lastLog.calls[1].attachment =
                 [nil |-> FALSE, URL |-> lastLog.passed.URL,
                  FileName |-> lastLog.passed.FileName,
                  Content |-> lastLog.passed.Content \o "\n\n--- Trace Log ---\n"
                              \o lastLog.trace]

C24_Witness ==
    /\ lastLog.op = "CustomSend" /\ lastLog.level = WARN
    /\ lastLog.trace = "B"
    /\ lastLog.passed = Attachment("", "test.txt", "A")
    /\ lastLog.calls[1].attachment.Content = "A\n\n--- Trace Log ---\nB"
    /\ lastLog.calls[1].attachment.FileName = "test.txt"

\* C29: Send, SendToChannel and CustomSend leave the attachment object the
\* caller passed as it was: after the call, with a trace or without, it has
\* the Content and FileName it was passed with.
C29_CallerAttachmentKept ==
    (Called /\ ~lastLog.passed.nil) => callerAtt = lastLog.passed

-----------------------------------------------------------------------------
(* DefaultChannelResolver.ResolveChannel applied to the resolver of a      *)
(* Logger, for every ChannelMap over the levels from below INFO to above   *)
(* MaxLevel.                                                               *)

ResolverLevels == (INFO - 1)..(MaxLevel + 1)

ResolverChannels == {"#mapped", ""}

ChannelMaps == UNION {[S -> ResolverChannels] : S \in SUBSET ResolverLevels}

ResolverInputs ==
    {DefaultChannelResolver(m, dc) : m \in ChannelMaps, dc \in {"#general", ""}}

ResolverInit ==
    /\ \E r \in ResolverInputs :
          /\ config = NewLogger([TestConfig EXCEPT !.ChannelResolver = r]).config
          /\ provider = NewLogger([TestConfig EXCEPT !.ChannelResolver = r]).provider
    /\ callerAtt = NilAttachment
    /\ lastLog = NoCall
    /\ data = EmptyData /\ redis = EmptyRedis /\ now = 0
    /\ IdleCache /\ IdleLark /\ IdleConc

\* One ResolveChannel(level) call on the Logger's resolver.
Resolve(level) ==
    /\ lastLog = NoCall
    /\ lastLog' = [NoCall EXCEPT !.op = "ResolveChannel", !.level = level,
                                 !.channel = ResolveChannel(config.ChannelResolver, level)]
    /\ UNCHANGED <<config, provider, callerAtt, storeVars, cacheVars, lastLark, concVars>>

ResolverNext ==
    \/ \E level \in ResolverLevels : Resolve(level)
    \/ LoggerReturn

ResolverSpec == ResolverInit /\ [][ResolverNext]_vars

\* C25: ResolveChannel(level) returns the channel ChannelMap holds for the
\* level when the level is one of its keys, and DefaultChannel otherwise,
\* for levels inside and outside INFO..ERROR and for an empty ChannelMap.
C25_ResolveChannel ==
    lastLog.op = "ResolveChannel" =>
        IF \E k \in DOMAIN config.ChannelResolver.ChannelMap : k = lastLog.level
        THEN \E k \in DOMAIN config.ChannelResolver.ChannelMap :
                /\ k = lastLog.level
                /\ lastLog.channel = config.ChannelResolver.ChannelMap[k]
        ELSE lastLog.channel = config.ChannelResolver.DefaultChannel

C25_Witness ==
    /\ lastLog.op = "ResolveChannel" /\ lastLog.level = INFO - 1
    /\ config.ChannelResolver.DefaultChannel = "#general"
    /\ DOMAIN config.ChannelResolver.ChannelMap = {INFO - 1, ERROR}
    /\ config.ChannelResolver.ChannelMap[INFO - 1] = "#mapped"
    /\ lastLog.channel = "#mapped"

\* C26: no step of Send, SendToChannel or CustomSend changes the config and
\* the provider the Logger holds, and a call that gives no channel sends to
\* the channel the Logger's resolver gives for the level, or to the
\* Logger's Channel when it has no resolver, whatever calls came before.
C26_ConfigKept ==
    /\ [][config' = config /\ provider' = provider]_vars
    /\ []((Called /\ lastLog.level # INFO /\ lastLog.channel = "") =>
             /\ lastLog.calls[1].channel =
                   (IF config.ChannelResolver.nil THEN config.Channel
                    ELSE IF lastLog.level \in DOMAIN config.ChannelResolver.ChannelMap
                         THEN config.ChannelResolver.ChannelMap[lastLog.level]
                         ELSE config.ChannelResolver.DefaultChannel)
             /\ lastLog.calls[1].cfg = [config EXCEPT !.Channel = lastLog.calls[1].channel])

C26_Witness ==
    /\ lastLog.op = "SendToChannel" /\ lastLog.level = ERROR
    /\ lastLog.channel = "#custom"
    /\ lastLog.calls[1].cfg.Channel = "#custom"
    /\ config.Channel = "#default"

-----------------------------------------------------------------------------
(* Goroutines calling SendToChannel on one Logger.  Send is SendToChannel  *)
(* without an override.  A call is four steps: the INFO check, the channel *)
(* resolution and the config copy; the read of attachment.Content; the     *)
(* write of attachment.Content and FileName; the provider call, which      *)
(* reads the attachment to format the text it sends.  The attachment a     *)
(* call is given is nil, an object of its own, or the object callerAtt     *)
(* that the goroutines share.  The Logger takes no lock.                    *)

Senders == {"s1", "s2"}
SenderLevels == {INFO, ERROR}
SenderMessages == {"m", "n"}
AttachmentKinds == {"nil", "own", "shared"}

SenderConfigs ==
    {TestConfig,
     [TestConfig EXCEPT !.ChannelResolver =
         DefaultChannelResolver((ERROR :> "#errors"), "#general")],
     [TestConfig EXCEPT !.Provider = "lark", !.SendMethod = MethodWebClient,
                        !.Environment = "dev",
                        !.LarkToken = LarkTokenConfig("app", "secret")]}

\* Every upstream request of these calls succeeds.
SenderProfile ==
    [pings |-> {FALSE}, ops |-> {TRUE},
     tokReplies |-> {TokReply(TRUE, TRUE, 0, "t1", 3600)},
     listings |-> {"first"}, failKinds |-> {},
     posts |-> {PostReply(TRUE, 200, TRUE)}]

NotHanded ==
    DispatcherCall("", INFO, "", NilAttachment, NewLogger(TestConfig).config, "", NoError)

NoSend ==
    [level |-> INFO, message |-> "", trace |-> "", channel |-> "", kind |-> "nil",
     passed |-> NilAttachment, own |-> NilAttachment, resolved |-> "",
     sendConfig |-> NewLogger(TestConfig).config, content |-> "", handed |-> NotHanded]

SendersInit ==
    /\ \E logger \in {NewLogger(cfg) : cfg \in SenderConfigs} :
          /\ config = logger.config
          /\ provider = logger.provider
    /\ callerAtt \in CallerAttachments
    /\ lastLog = NoCall
    /\ data = EmptyData /\ redis = EmptyRedis /\ now = 0
    /\ IdleCache /\ IdleLark
    /\ pc = [s \in Senders |-> "idle"]
    /\ loc = [s \in Senders |-> NoSend]

SendersFrame == UNCHANGED <<provider, lastLog, now, cacheVars, lastLark>>

\* The attachment object goroutine s holds a pointer to.
ObjectOf(s) ==
    IF loc[s].kind = "shared" THEN callerAtt ELSE loc[s].own

\* SendToChannel up to sendConfig.Channel = resolvedChannel.
SenderCall(s, level, message, kind, trace, channel) ==
    LET given == IF kind = "shared" THEN callerAtt
                 ELSE IF kind = "own" THEN Attachment("", "test.txt", "A")
                 ELSE NilAttachment
        started(rc, copy) ==
            /\ loc' = [loc EXCEPT ![s] =
                          [NoSend EXCEPT !.level = level, !.message = message,
                                         !.trace = trace, !.channel = channel,
                                         !.kind = kind, !.passed = given,
                                         !.own = IF kind = "own" THEN given ELSE NilAttachment,
                                         !.resolved = rc.channel,
                                         !.sendConfig = copy.sendConfig]]
            /\ config' = copy.config
    IN  /\ pc[s] = "idle"
        /\ kind = "shared" => Len(callerAtt.Content) <= MaxContentLen
        /\ IF LocalOnly(level)
           THEN /\ pc' = [pc EXCEPT ![s] = "done"]
                /\ loc' = [loc EXCEPT ![s] =
                              [NoSend EXCEPT !.level = level, !.message = message,
                                             !.trace = trace, !.channel = channel,
                                             !.kind = kind, !.passed = given]]
                /\ config' = config
           ELSE /\ pc' = [pc EXCEPT ![s] = "resolved"]
                /\ \E rc \in {ResolvedChannel(config, level, channel)} :
                      started(rc, CopyConfig(config, rc.channel))
        /\ UNCHANGED <<callerAtt, data, redis>>
        /\ SendersFrame

\* if trace != "": with an attachment, the read of attachment.Content; with
\* none, attachment = traceAttachment, an object of the call's own.
SenderReadContent(s) ==
    /\ pc[s] = "resolved"
    /\ IF loc[s].trace = ""
       THEN /\ pc' = [pc EXCEPT ![s] = "merged"]
            /\ loc' = loc
       ELSE IF loc[s].kind = "nil"
       THEN /\ pc' = [pc EXCEPT ![s] = "merged"]
            /\ loc' = [loc EXCEPT ![s].own = Attachment("", "trace.log", loc[s].trace)]
       ELSE /\ pc' = [pc EXCEPT ![s] = "read"]
            /\ loc' = [loc EXCEPT ![s].content = ObjectOf(s).Content]
    /\ UNCHANGED <<config, callerAtt, data, redis>>
    /\ SendersFrame

\* attachment.Content += separator + trace, or attachment.Content = trace and
\* attachment.FileName = "trace.log": the write through the pointer.
SenderWriteContent(s) ==
    LET written(object) ==
            IF loc[s].content # ""
            THEN [object EXCEPT !.Content = loc[s].content \o TraceSeparator \o loc[s].trace]
            ELSE [object EXCEPT !.Content = loc[s].trace, !.FileName = "trace.log"]
    IN  /\ pc[s] = "read"
        /\ pc' = [pc EXCEPT ![s] = "merged"]
        /\ IF loc[s].kind = "shared"
           THEN /\ callerAtt' = written(callerAtt)
                /\ loc' = loc
           ELSE /\ callerAtt' = callerAtt
                /\ loc' = [loc EXCEPT ![s].own = written(loc[s].own)]
        /\ UNCHANGED <<config, data, redis>>
        /\ SendersFrame

\* l.provider.SendToChannel(level, message, attachment, sendConfig,
\* resolvedChannel), which formats its text from the attachment as it is now.
SenderDispatch(s) ==
    /\ pc[s] = "merged"
    /\ pc' = [pc EXCEPT ![s] = "done"]
    /\ \E env \in DispatchEnvs(SenderProfile, loc[s].resolved) :
          \E sent \in {Dispatch(provider, loc[s].level, loc[s].message, ObjectOf(s),
                                loc[s].sendConfig, loc[s].resolved, env, data, redis, now)} :
              /\ loc' = [loc EXCEPT ![s].handed = sent.calls[1]]
              /\ data' = sent.out.data
              /\ redis' = sent.out.redis
    /\ UNCHANGED <<config, callerAtt>>
    /\ SendersFrame

\* The call of goroutine s returns.
SenderReturn(s) ==
    /\ pc[s] = "done"
    /\ pc' = [pc EXCEPT ![s] = "idle"]
    /\ loc' = [loc EXCEPT ![s] = NoSend]
    /\ UNCHANGED <<config, callerAtt, data, redis>>
    /\ SendersFrame

SendersNext ==
    \E s \in Senders :
        \/ \E level \in SenderLevels, message \in SenderMessages, kind \in AttachmentKinds,
              trace \in Traces, channel \in ChannelOverrides :
              SenderCall(s, level, message, kind, trace, channel)
        \/ SenderReadContent(s)
        \/ SenderWriteContent(s)
        \/ SenderDispatch(s)
        \/ SenderReturn(s)

SendersSpec == SendersInit /\ [][SendersNext]_vars

\* C27: under every interleaving of the goroutines, a call that reached its
\* dispatcher handed it the channel, the message and the attachment the
\* message body is formatted from that the same call hands over when it
\* runs alone on the arguments it was given.
C27_Independent ==
    \A s \in Senders :
        (pc[s] = "done" /\ ~LocalOnly(loc[s].level)) =>
            /\ loc[s].handed.channel =
                  ResolvedChannel(config, loc[s].level, loc[s].channel).channel
            /\ loc[s].handed.cfg = [config EXCEPT !.Channel = loc[s].handed.channel]
            /\ loc[s].handed.message = loc[s].message
            /\ loc[s].handed.attachment = MergeTrace(loc[s].passed, loc[s].trace)

-----------------------------------------------------------------------------
(* The package variable globalCache and its two accessors.  An instance is *)
(* named by its identity: the one NewInMemoryCache() built when the        *)
(* package was initialised, the ones a caller built, and nil.  hist holds  *)
(* globalCache and the calls made so far, each with the instance it was    *)
(* passed or returned.                                                     *)

\* The most calls a sequence makes.
MaxGlobalCalls == 4

\* var globalCache Cache = NewInMemoryCache()
InitialInstance == "memory"
CacheInstances == {InitialInstance, "custom", "nil"}

\* GetGlobalCache: the instance returned when the variable holds g.
GetGlobalCache(g) == g

\* A setter that replaces the initial instance only.
SetGlobalCacheOnce(g, c) == IF g = InitialInstance THEN c ELSE g

\* SetGlobalCache: the variable after the call, when it held g.
SetGlobalCache(g, c) == c

GlobalInit ==
    /\ IdleLogger
    /\ data = EmptyData /\ redis = EmptyRedis /\ now = 0
    /\ lastCache = NoCacheCall
    /\ hist = [globalCache |-> InitialInstance, log |-> <<>>]
    /\ IdleLark /\ IdleConc

GlobalFrame == UNCHANGED <<loggerVars, storeVars, lastCache, lastLark, concVars>>

GlobalGet ==
    /\ Len(hist.log) < MaxGlobalCalls
    /\ hist' = [hist EXCEPT !.log =
                   Append(@, [op |-> "Get", instance |-> GetGlobalCache(hist.globalCache)])]
    /\ GlobalFrame

GlobalSet(c) ==
    /\ Len(hist.log) < MaxGlobalCalls
    /\ hist' = [globalCache |-> SetGlobalCache(hist.globalCache, c),
                log |-> Append(hist.log, [op |-> "Set", instance |-> c])]
    /\ GlobalFrame

GlobalNext ==
    \/ GlobalGet
    \/ \E c \in CacheInstances : GlobalSet(c)

GlobalSpec == GlobalInit /\ [][GlobalNext]_vars

\* The instance passed to the last SetGlobalCache before call i, or the
\* initial instance when there was none.
LastInstalled(log, i) ==
    LET sets == {j \in 1..(i - 1) : log[j].op = "Set"}
    IN  IF sets = {} THEN InitialInstance
        ELSE log[CHOOSE j \in sets : \A k \in sets : k <= j].instance

\* C28: every GetGlobalCache of a sequence returns the instance passed to the
\* most recent SetGlobalCache before it, or the initial in-memory instance
\* when there was none; two GetGlobalCache calls with no SetGlobalCache
\* between them return the same instance.
C28_GlobalInstance ==
    /\ \A i \in 1..Len(hist.log) :
          hist.log[i].op = "Get" => hist.log[i].instance = LastInstalled(hist.log, i)
    /\ \A i, j \in 1..Len(hist.log) :
          (/\ i < j
           /\ \A k \in i..j : hist.log[k].op = "Get")
          => hist.log[i].instance = hist.log[j].instance

C28_Witness ==
    /\ Len(hist.log) = 4
    /\ hist.log[1] = [op |-> "Set", instance |-> "custom"]
    /\ hist.log[2] = [op |-> "Set", instance |-> "nil"]
    /\ hist.log[3] = [op |-> "Get", instance |-> "nil"]
    /\ hist.log[4] = [op |-> "Get", instance |-> "nil"]

-----------------------------------------------------------------------------
(* The order of the steps of a Lark WebClient send, checked under SendSpec. *)

\* The requests of the last send that went to the endpoints of the kinds.
RequestsTo(kinds) ==
    {i \in 1..Len(lastLark.http) : lastLark.http[i].kind \in kinds}

\* The entry the stores held for a key before the last send: the external
\* store is read first.
CachedBefore(key) ==
    IF key \in DOMAIN lastLark.before.redis THEN lastLark.before.redis[key].value
    ELSE IF key \in DOMAIN lastLark.before.data THEN lastLark.before.data[key].value
    ELSE ""

\* C30: in a Lark WebClient send the token request comes before every
\* channel-listing request and these before the message POST; a message
\* POST is issued only when the token resolution and the channel-id
\* resolution succeeded, with the resolved chat id as receive_id and the
\* resolved token as bearer; when the token resolution fails (network
\* error, non-success status, undecodable body, non-zero code) no listing
\* request and no message POST are issued, when the channel-id resolution
\* fails no message POST is issued, and in both cases the send returns an
\* error.
C30_StepOrder ==
    ( /\ SendCalled /\ lastLark.logger.provider = "LarkProvider"
      /\ lastLark.logger.config.SendMethod = "webclient" ) =>
        /\ \A i \in RequestsTo({"token"}), j \in RequestsTo({"chats", "lark-api"}) : i < j
        /\ \A i \in RequestsTo({"chats"}), j \in RequestsTo({"lark-api"}) : i < j
        /\ \A i \in RequestsTo({"lark-api"}) :
              /\ lastLark.token \in {NotAsked, "ok"}
              /\ lastLark.listing \in {NotAsked, "ok"}
              /\ lastLark.http[i].dest =
                    (IF lastLark.listing = "ok" THEN "oc_1" ELSE CachedBefore(SentChatKey))
              /\ lastLark.token = "ok" => lastLark.http[i].bearer = "t-1"
        /\ lastLark.token \notin {NotAsked, "ok"} =>
              /\ RequestsTo({"chats", "lark-api"}) = {}
              /\ lastLark.err # NoError
        /\ lastLark.listing \in {"failed", "not found"} =>
              /\ RequestsTo({"lark-api"}) = {}
              /\ lastLark.err # NoError

====
